---- MODULE Spec2Model ----
(***************************************************************************)
(* A model of nsFloatManager (layout/generic/nsFloatManager.cpp): the      *)
(* float registry with its cumulative block-end summaries, the flow-area   *)
(* query, the shape strategies behind shape-outside, state push/pop and    *)
(* float clearance.  Coordinates are nscoord app units; the writing modes  *)
(* modelled are horizontal-tb LTR and RTL.                                 *)
(***************************************************************************)
EXTENDS Integers, Sequences, FiniteSets, TLC

(***************************************************************************)
(* nscoord and small helpers                                               *)
(***************************************************************************)
nscoord_MAX == 1073741823
nscoord_MIN == -nscoord_MAX

Max(a, b) == IF a >= b THEN a ELSE b
Min(a, b) == IF a <= b THEN a ELSE b

\* C++ integer division truncates toward zero; \div floors.
TruncDiv(a, b) == IF a >= 0 THEN a \div b ELSE -((-a) \div b)

(***************************************************************************)
(* Writing modes, logical rects (mozilla::LogicalRect) and nsRect          *)
(***************************************************************************)
WritingModes == {"ltr", "rtl"}
IsBidiLTR(aWM) == aWM = "ltr"

LogicalRect(aIStart, aBStart, aISize, aBSize) ==
  [IStart |-> aIStart, BStart |-> aBStart, ISize |-> aISize, BSize |-> aBSize]

\* LogicalRect::LineLeft / LineRight for a horizontal writing mode: the
\* physical left and right edges within a container aContainerSize wide.
LogicalRectLineLeft(aRect, aWM, aContainerSize) ==
  IF IsBidiLTR(aWM) THEN aRect.IStart
  ELSE aContainerSize - (aRect.IStart + aRect.ISize)
LogicalRectLineRight(aRect, aWM, aContainerSize) ==
  IF IsBidiLTR(aWM) THEN aRect.IStart + aRect.ISize
  ELSE aContainerSize - aRect.IStart

nsRect(aX, aY, aWidth, aHeight) ==
  [x |-> aX, y |-> aY, width |-> aWidth, height |-> aHeight]
XMost(r) == r.x + r.width
YMost(r) == r.y + r.height
RectIsEmpty(r) == r.height <= 0 \/ r.width <= 0
MoveBy(r, aDx, aDy) == [r EXCEPT !.x = @ + aDx, !.y = @ + aDy]
nsPoint(aX, aY) == [x |-> aX, y |-> aY]
PointMoveBy(p, aDx, aDy) == [x |-> p.x + aDx, y |-> p.y + aDy]
PointSub(a, b) == [x |-> a.x - b.x, y |-> a.y - b.y]

\* ShapeInfo::ConvertToFloatLogical(const LogicalRect&, ...)
ConvertToFloatLogical(aRect, aWM, aContainerSize) ==
  nsRect(LogicalRectLineLeft(aRect, aWM, aContainerSize), aRect.BStart,
         aRect.ISize, aRect.BSize)

\* ShapeInfo::ConvertToFloatLogical(const nsPoint&, ...): physical point to
\* LogicalPoint, then its line-relative coordinate.
PointConvertToFloatLogical(aPoint, aWM, aContainerSize) ==
  LET I == IF IsBidiLTR(aWM) THEN aPoint.x ELSE aContainerSize - aPoint.x
  IN nsPoint(IF IsBidiLTR(aWM) THEN I ELSE aContainerSize - I, aPoint.y)

(***************************************************************************)
(* Shape strategies.  A shape is a record tagged by its class; NoShape is  *)
(* the null mShapeInfo.                                                    *)
(***************************************************************************)
NoShape == [type |-> "none"]
HasShape(aShape) == aShape.type # "none"

\* ShapeInfo::XInterceptAtY: aRadiusX * sqrt(1 - aY^2 / aRadiusY^2), converted
\* to nscoord (truncated).
EllipseXInterceptAtY(aY, aRadiusX, aRadiusY) ==
  CHOOSE k \in 0..aRadiusX :
    /\ k * k * aRadiusY * aRadiusY
         <= aRadiusX * aRadiusX * (aRadiusY * aRadiusY - aY * aY)
    /\ (k + 1) * (k + 1) * aRadiusY * aRadiusY
         > aRadiusX * aRadiusX * (aRadiusY * aRadiusY - aY * aY)

ComputeEllipseLineInterceptDiff(aShapeBoxBStart, aShapeBoxBEnd, aBStartCornerRadiusL, aBStartCornerRadiusB, aBEndCornerRadiusL, aBEndCornerRadiusB, aBandBStart, aBandBEnd) ==
  IF /\ aBStartCornerRadiusB > 0
     /\ aBandBEnd >= aShapeBoxBStart
     /\ aBandBEnd <= aShapeBoxBStart + aBStartCornerRadiusB
  THEN aBStartCornerRadiusL
         - EllipseXInterceptAtY(
             aBStartCornerRadiusB - (aBandBEnd - aShapeBoxBStart),
             aBStartCornerRadiusL, aBStartCornerRadiusB)
  ELSE IF /\ aBEndCornerRadiusB > 0
          /\ aBandBStart >= aShapeBoxBEnd - aBEndCornerRadiusB
          /\ aBandBStart <= aShapeBoxBEnd
  THEN aBEndCornerRadiusL
         - EllipseXInterceptAtY(
             aBEndCornerRadiusB - (aShapeBoxBEnd - aBandBStart),
             aBEndCornerRadiusL, aBEndCornerRadiusB)
  ELSE 0

\* RoundedBoxShapeInfo.  mRadii is NoRadii for the null pointer, else a record
\* of the eight half radii named after the half corners.
NoRadii == [null |-> TRUE]

RoundedBoxShapeInfo(aRect, aRadii) ==
  [type |-> "roundedbox", mRect |-> aRect, mRadii |-> aRadii]

RoundedBoxLineLeft(s, aBStart, aBEnd) ==
  IF s.mRadii = NoRadii THEN s.mRect.x
  ELSE s.mRect.x
         + ComputeEllipseLineInterceptDiff(
             s.mRect.y, YMost(s.mRect),
             s.mRadii.eCornerTopLeftX, s.mRadii.eCornerTopLeftY,
             s.mRadii.eCornerBottomLeftX, s.mRadii.eCornerBottomLeftY,
             aBStart, aBEnd)

RoundedBoxLineRight(s, aBStart, aBEnd) ==
  IF s.mRadii = NoRadii THEN XMost(s.mRect)
  ELSE XMost(s.mRect)
         - ComputeEllipseLineInterceptDiff(
             s.mRect.y, YMost(s.mRect),
             s.mRadii.eCornerTopRightX, s.mRadii.eCornerTopRightY,
             s.mRadii.eCornerBottomRightX, s.mRadii.eCornerBottomRightY,
             aBStart, aBEnd)

\* PolygonShapeInfo
Determinant(aP0, aP1) == aP0.x * aP1.y - aP0.y * aP1.x

IsEntirelyCollinear(aVertices) ==
  \A i \in 3..Len(aVertices) :
    Determinant(PointSub(aVertices[i], aVertices[1]),
                PointSub(aVertices[2], aVertices[1])) = 0

RECURSIVE MinVertexY(_, _)
MinVertexY(aVertices, n) ==
  IF n = 0 THEN nscoord_MAX
  ELSE Min(MinVertexY(aVertices, n - 1), aVertices[n].y)

RECURSIVE MaxVertexY(_, _)
MaxVertexY(aVertices, n) ==
  IF n = 0 THEN nscoord_MIN
  ELSE Max(MaxVertexY(aVertices, n - 1), aVertices[n].y)

\* The constructor without the test for collinear vertices.
PolygonShapeInfo_NoCollinearTest(aVertices) ==
  IF Len(aVertices) < 3
  THEN [type |-> "polygon", mVertices |-> aVertices, mEmpty |-> TRUE,
        mBStart |-> nscoord_MAX, mBEnd |-> nscoord_MIN]
  ELSE [type |-> "polygon", mVertices |-> aVertices, mEmpty |-> FALSE,
        mBStart |-> MinVertexY(aVertices, Len(aVertices)),
        mBEnd |-> MaxVertexY(aVertices, Len(aVertices))]

PolygonShapeInfo(aVertices) ==
  IF Len(aVertices) < 3 \/ IsEntirelyCollinear(aVertices)
  THEN [type |-> "polygon", mVertices |-> aVertices, mEmpty |-> TRUE,
        mBStart |-> nscoord_MAX, mBEnd |-> nscoord_MIN]
  ELSE [type |-> "polygon", mVertices |-> aVertices, mEmpty |-> FALSE,
        mBStart |-> MinVertexY(aVertices, Len(aVertices)),
        mBEnd |-> MaxVertexY(aVertices, Len(aVertices))]

PolygonXInterceptAtY(aY, aP1, aP2) ==
  aP1.x + TruncDiv((aY - aP1.y) * (aP2.x - aP1.x), aP2.y - aP1.y)

\* One iteration of the loop of ComputeLineIntercept: edge i of the polygon
\* folded into lineIntercept.  aUseMax selects std::max (LineRight) or
\* std::min (LineLeft).
LineInterceptStep(aVertices, i, aBStart, aBEnd, aUseMax, lineIntercept) ==
  LET len == Len(aVertices)
      a == aVertices[i]
      b == aVertices[(i % len) + 1]
      smallYVertex == IF a.y > b.y THEN b ELSE a
      bigYVertex == IF a.y > b.y THEN a ELSE b
      bStartLineIntercept ==
        IF aBStart <= smallYVertex.y THEN smallYVertex.x
        ELSE PolygonXInterceptAtY(aBStart, smallYVertex, bigYVertex)
      bEndLineIntercept ==
        IF aBEnd >= bigYVertex.y THEN bigYVertex.x
        ELSE PolygonXInterceptAtY(aBEnd, smallYVertex, bigYVertex)
  IN IF \/ aBStart >= bigYVertex.y
        \/ aBEnd <= smallYVertex.y
        \/ smallYVertex.y = bigYVertex.y
     THEN lineIntercept
     ELSE IF aUseMax
          THEN Max(lineIntercept, Max(bStartLineIntercept, bEndLineIntercept))
          ELSE Min(lineIntercept, Min(bStartLineIntercept, bEndLineIntercept))

RECURSIVE LineInterceptLoop(_, _, _, _, _, _)
LineInterceptLoop(aVertices, i, aBStart, aBEnd, aUseMax, lineIntercept) ==
  IF i > Len(aVertices) THEN lineIntercept
  ELSE LineInterceptLoop(aVertices, i + 1, aBStart, aBEnd, aUseMax,
         LineInterceptStep(aVertices, i, aBStart, aBEnd, aUseMax,
                           lineIntercept))

ComputeLineIntercept(s, aBStart, aBEnd, aUseMax, aLineInterceptInitialValue) ==
  LineInterceptLoop(s.mVertices, 1, aBStart, aBEnd, aUseMax,
                    aLineInterceptInitialValue)

\* LineRight folding with std::min.
PolygonLineRight_UsesMin(s, aBStart, aBEnd) ==
  ComputeLineIntercept(s, aBStart, aBEnd, FALSE, nscoord_MIN)

\* LineRight read at the middle of the band.
PolygonLineRight_AtMidpoint(s, aBStart, aBEnd) ==
  ComputeLineIntercept(s, TruncDiv(aBStart + aBEnd, 2),
                       TruncDiv(aBStart + aBEnd, 2), TRUE, nscoord_MIN)

PolygonLineLeft(s, aBStart, aBEnd) ==
  ComputeLineIntercept(s, aBStart, aBEnd, FALSE, nscoord_MAX)
PolygonLineRight(s, aBStart, aBEnd) ==
  ComputeLineIntercept(s, aBStart, aBEnd, TRUE, nscoord_MIN)

\* EllipseShapeInfo.  mRadii.width and mRadii.height are the line-axis and
\* block-axis radii.
nsSize(aWidth, aHeight) == [width |-> aWidth, height |-> aHeight]
SizeIsEmpty(aSize) == aSize.width <= 0 \/ aSize.height <= 0

EllipseShapeInfo(aCenter, aRadii) ==
  [type |-> "ellipse", mCenter |-> aCenter, mRadii |-> aRadii]

EllipseBStart(s) == s.mCenter.y - s.mRadii.height
EllipseBEnd(s) == s.mCenter.y + s.mRadii.height

EllipseLineLeft(s, aBStart, aBEnd) ==
  s.mCenter.x - s.mRadii.width
    + ComputeEllipseLineInterceptDiff(
        EllipseBStart(s), EllipseBEnd(s),
        s.mRadii.width, s.mRadii.height, s.mRadii.width, s.mRadii.height,
        aBStart, aBEnd)

EllipseLineRight(s, aBStart, aBEnd) ==
  s.mCenter.x + s.mRadii.width
    - ComputeEllipseLineInterceptDiff(
        EllipseBStart(s), EllipseBEnd(s),
        s.mRadii.width, s.mRadii.height, s.mRadii.width, s.mRadii.height,
        aBStart, aBEnd)

\* ImageShapeInfo for a horizontal writing mode: one interval, one pixel deep,
\* for every row of aAlphaPixels that has a pixel above the threshold.
NSToIntFloor255(aThresholdPerMille) == (aThresholdPerMille * 255) \div 1000

RowCols(aRow, aThreshold) == { i \in 1..Len(aRow) : aRow[i] > aThreshold }

RECURSIVE ImageIntervals(_, _, _, _, _)
ImageIntervals(aAlphaPixels, b, aThreshold, aAppUnitsPerDevPixel, aOrigin) ==
  IF b >= Len(aAlphaPixels) THEN << >>
  ELSE LET cols == RowCols(aAlphaPixels[b + 1], aThreshold)
           iMin == (CHOOSE i \in cols : \A j \in cols : i <= j) - 1
           iMax == (CHOOSE i \in cols : \A j \in cols : i >= j) - 1
           found ==
             IF cols = {} THEN << >>
             ELSE << nsRect(aOrigin.x + iMin * aAppUnitsPerDevPixel,
                            aOrigin.y + b * aAppUnitsPerDevPixel,
                            ((iMax + 1) - iMin) * aAppUnitsPerDevPixel,
                            aAppUnitsPerDevPixel) >>
       IN found \o ImageIntervals(aAlphaPixels, b + 1, aThreshold,
                                  aAppUnitsPerDevPixel, aOrigin)

ImageShapeInfo(aAlphaPixels, aAppUnitsPerDevPixel, aShapeImageThreshold, aContentRect, aWM, aContainerSize) ==
  LET origin == PointConvertToFloatLogical(
                  nsPoint(aContentRect.x, aContentRect.y), aWM, aContainerSize)
      intervals == ImageIntervals(aAlphaPixels, 0,
                                  NSToIntFloor255(aShapeImageThreshold),
                                  aAppUnitsPerDevPixel, origin)
  IN [type |-> "image", mIntervals |-> intervals,
      mBStart |-> IF intervals = << >> THEN nscoord_MAX ELSE intervals[1].y,
      mBEnd |-> IF intervals = << >> THEN nscoord_MIN
                ELSE YMost(intervals[Len(intervals)])]

RectContainsY(r, aY) == r.y <= aY /\ aY < YMost(r)

\* The binary search of MinIntervalIndexContainingY, indices from 0.
RECURSIVE IntervalSearch(_, _, _, _)
IntervalSearch(aIntervals, aTargetY, startIdx, endIdx) ==
  IF startIdx >= endIdx THEN endIdx
  ELSE LET midIdx == startIdx + (endIdx - startIdx) \div 2
           mid == aIntervals[midIdx + 1]
       IN IF RectContainsY(mid, aTargetY) THEN midIdx
          ELSE IF mid.y < aTargetY
               THEN IntervalSearch(aIntervals, aTargetY, midIdx + 1, endIdx)
               ELSE IntervalSearch(aIntervals, aTargetY, startIdx, midIdx)

\* The walk over the intervals begun at the first one.
MinIntervalIndexContainingY_FromStart(s, aTargetY) == 0

MinIntervalIndexContainingY(s, aTargetY) ==
  IntervalSearch(s.mIntervals, aTargetY, 0, Len(s.mIntervals))

\* The loop of ImageShapeInfo::LineEdge from interval i (counted from 0).
RECURSIVE LineEdgeLoop(_, _, _, _, _)
LineEdgeLoop(aIntervals, i, aBEnd, aLeft, lineEdge) ==
  IF i >= Len(aIntervals) THEN lineEdge
  ELSE LET interval == aIntervals[i + 1]
       IN IF interval.y > aBEnd THEN lineEdge
          ELSE LineEdgeLoop(aIntervals, i + 1, aBEnd, aLeft,
                 IF aLeft THEN Min(lineEdge, interval.x)
                 ELSE Max(lineEdge, XMost(interval)))

LineEdge(s, aBStart, aBEnd, aLeft) ==
  LineEdgeLoop(s.mIntervals, MinIntervalIndexContainingY(s, aBStart), aBEnd,
               aLeft, IF aLeft THEN nscoord_MAX ELSE nscoord_MIN)

ImageLineLeft(s, aBStart, aBEnd) == LineEdge(s, aBStart, aBEnd, TRUE)
ImageLineRight(s, aBStart, aBEnd) == LineEdge(s, aBStart, aBEnd, FALSE)

\* Dispatch of the virtual ShapeInfo interface.
ShapeLineLeft(s, aBStart, aBEnd) ==
  CASE s.type = "roundedbox" -> RoundedBoxLineLeft(s, aBStart, aBEnd)
    [] s.type = "ellipse" -> EllipseLineLeft(s, aBStart, aBEnd)
    [] s.type = "polygon" -> PolygonLineLeft(s, aBStart, aBEnd)
    [] s.type = "image" -> ImageLineLeft(s, aBStart, aBEnd)
ShapeLineRight(s, aBStart, aBEnd) ==
  CASE s.type = "roundedbox" -> RoundedBoxLineRight(s, aBStart, aBEnd)
    [] s.type = "ellipse" -> EllipseLineRight(s, aBStart, aBEnd)
    [] s.type = "polygon" -> PolygonLineRight(s, aBStart, aBEnd)
    [] s.type = "image" -> ImageLineRight(s, aBStart, aBEnd)
ShapeBStart(s) ==
  CASE s.type = "roundedbox" -> s.mRect.y
    [] s.type = "ellipse" -> EllipseBStart(s)
    [] s.type = "polygon" -> s.mBStart
    [] s.type = "image" -> s.mBStart
ShapeBEnd(s) ==
  CASE s.type = "roundedbox" -> YMost(s.mRect)
    [] s.type = "ellipse" -> EllipseBEnd(s)
    [] s.type = "polygon" -> s.mBEnd
    [] s.type = "image" -> s.mBEnd
ShapeIsEmpty(s) ==
  CASE s.type = "roundedbox" -> RectIsEmpty(s.mRect)
    [] s.type = "ellipse" -> SizeIsEmpty(s.mRadii)
    [] s.type = "polygon" -> s.mEmpty
    [] s.type = "image" -> s.mIntervals = << >>
ShapeTranslate(s, aLineLeft, aBlockStart) ==
  CASE s.type = "roundedbox" ->
         [s EXCEPT !.mRect = MoveBy(@, aLineLeft, aBlockStart)]
    [] s.type = "ellipse" ->
         [s EXCEPT !.mCenter = PointMoveBy(@, aLineLeft, aBlockStart)]
    [] s.type = "polygon" ->
         [s EXCEPT !.mVertices =
                     [i \in 1..Len(s.mVertices) |->
                        PointMoveBy(s.mVertices[i], aLineLeft, aBlockStart)],
                   !.mBStart = @ + aBlockStart,
                   !.mBEnd = @ + aBlockStart]
    [] s.type = "image" ->
         [s EXCEPT !.mIntervals =
                     [i \in 1..Len(s.mIntervals) |->
                        MoveBy(s.mIntervals[i], aLineLeft, aBlockStart)],
                   !.mBStart = @ + aBlockStart,
                   !.mBEnd = @ + aBlockStart]

(***************************************************************************)
(* Frames.  A frame is an opaque handle; what the manager reads from it is *)
(* its style: the physical float side and the shape-outside value.         *)
(***************************************************************************)
Frames == {"fL", "fR", "fP", "fB", "fQ", "fE", "fO", "fI", "fC", "fT", "fH", "fJ", "fS", "fU"}

\* aFrame->StyleDisplay()->PhysicalFloats(aWM)
PhysicalFloats(aFrame) ==
  CASE aFrame = "fL" -> "Left"
    [] aFrame = "fR" -> "Right"
    [] aFrame = "fP" -> "Left"
    [] aFrame = "fB" -> "Right"
    [] aFrame = "fQ" -> "Left"
    [] aFrame = "fE" -> "Left"
    [] aFrame = "fO" -> "Right"
    [] aFrame = "fI" -> "Left"
    [] aFrame = "fC" -> "Left"
    [] aFrame = "fT" -> "Right"
    [] aFrame = "fH" -> "Left"
    [] aFrame = "fJ" -> "Right"
    [] aFrame = "fS" -> "Left"
    [] aFrame = "fU" -> "Right"

\* aFrame->StyleDisplay()->mShapeOutside.  A polygon is given by its vertex
\* offsets from the reference box; a <shape-box> by the widths stripped from
\* the margin box on each side and the frame's border radii; an ellipse by
\* the offset of its center from the reference box and its radii; an image by
\* its alpha pixels, the threshold in thousandths, the frame's content rect
\* and the device's app units per pixel.
\* fQ is a diamond reaching outside its margin box, fO a box with rounded
\* corners, fC a polygon of collinear vertices, fT one of two vertices, and
\* the image of fI has two empty rows between two rows with a pixel.  fH is
\* a triangle filling the block-start line-left half of a box of 200, and
\* fJ a right float whose image has an empty row between two rows with
\* pixels.  The polygon of fS lies after the block end of a margin box of
\* height 2 and that of fU before the block start of its margin box.
mShapeOutside(aFrame) ==
  CASE aFrame = "fL" -> [type |-> "None"]
    [] aFrame = "fR" -> [type |-> "None"]
    [] aFrame = "fP" -> [type |-> "Polygon",
                         coords |-> << nsPoint(0, 0), nsPoint(2, 0),
                                       nsPoint(0, 2) >>]
    [] aFrame = "fB" -> [type |-> "Box",
                         deflate |-> [IStart |-> 1, IEnd |-> 0,
                                      BStart |-> 1, BEnd |-> 0],
                         radii |-> NoRadii]
    [] aFrame = "fQ" -> [type |-> "Polygon",
                         coords |-> << nsPoint(1, -1), nsPoint(3, 1),
                                       nsPoint(1, 3), nsPoint(-1, 1) >>]
    [] aFrame = "fE" -> [type |-> "Ellipse", center |-> nsPoint(2, 2),
                         radii |-> nsSize(3, 2)]
    [] aFrame = "fO" -> [type |-> "Box",
                         deflate |-> [IStart |-> 0, IEnd |-> 0,
                                      BStart |-> 0, BEnd |-> 0],
                         radii |-> [eCornerTopLeftX |-> 1,
                                    eCornerTopLeftY |-> 1,
                                    eCornerTopRightX |-> 3,
                                    eCornerTopRightY |-> 2,
                                    eCornerBottomRightX |-> 1,
                                    eCornerBottomRightY |-> 2,
                                    eCornerBottomLeftX |-> 3,
                                    eCornerBottomLeftY |-> 2]]
    [] aFrame = "fI" -> [type |-> "Image", ready |-> TRUE,
                         alpha |-> << << 255, 0 >>, << 0, 0 >>,
                                      << 100, 0 >>, << 0, 255 >> >>,
                         threshold |-> 500,
                         contentRect |-> nsRect(0, 0, 2, 4),
                         appUnitsPerDevPixel |-> 1]
    [] aFrame = "fC" -> [type |-> "Polygon",
                         coords |-> << nsPoint(0, 0), nsPoint(1, 1),
                                       nsPoint(2, 2) >>]
    [] aFrame = "fT" -> [type |-> "Polygon",
                         coords |-> << nsPoint(0, 0), nsPoint(2, 2) >>]
    [] aFrame = "fH" -> [type |-> "Polygon",
                         coords |-> << nsPoint(0, 0), nsPoint(200, 0),
                                       nsPoint(0, 200) >>]
    [] aFrame = "fJ" -> [type |-> "Image", ready |-> TRUE,
                         alpha |-> << << 0, 255, 255 >>, << 0, 0, 0 >>,
                                      << 255, 255, 0 >> >>,
                         threshold |-> 500,
                         contentRect |-> nsRect(1, 1, 3, 3),
                         appUnitsPerDevPixel |-> 1]
    [] aFrame = "fS" -> [type |-> "Polygon",
                         coords |-> << nsPoint(0, 3), nsPoint(2, 3),
                                       nsPoint(0, 5) >>]
    [] aFrame = "fU" -> [type |-> "Polygon",
                         coords |-> << nsPoint(0, -3), nsPoint(2, -3),
                                       nsPoint(2, -1) >>]

\* ShapeInfo::ComputeShapeBoxRect: the margin rect deflated to the reference
\* box.
ComputeShapeBoxRect(aShapeOutside, aMarginRect) ==
  IF aShapeOutside.type = "Box"
  THEN LogicalRect(aMarginRect.IStart + aShapeOutside.deflate.IStart,
                   aMarginRect.BStart + aShapeOutside.deflate.BStart,
                   Max(0, aMarginRect.ISize - aShapeOutside.deflate.IStart
                                            - aShapeOutside.deflate.IEnd),
                   Max(0, aMarginRect.BSize - aShapeOutside.deflate.BStart
                                            - aShapeOutside.deflate.BEnd))
  ELSE aMarginRect

CreateShapeBox(aShapeOutside, aShapeBoxRect, aWM, aContainerSize) ==
  RoundedBoxShapeInfo(ConvertToFloatLogical(aShapeBoxRect, aWM, aContainerSize),
                      aShapeOutside.radii)

CreatePolygon(aShapeOutside, aShapeBoxRect, aWM, aContainerSize) ==
  LET physicalShapeBoxRect ==
        nsRect(LogicalRectLineLeft(aShapeBoxRect, aWM, aContainerSize),
               aShapeBoxRect.BStart, aShapeBoxRect.ISize, aShapeBoxRect.BSize)
      vertices ==
        [i \in 1..Len(aShapeOutside.coords) |->
           PointMoveBy(aShapeOutside.coords[i],
                       physicalShapeBoxRect.x, physicalShapeBoxRect.y)]
  IN PolygonShapeInfo(
       [i \in 1..Len(vertices) |->
          PointConvertToFloatLogical(vertices[i], aWM, aContainerSize)])

\* ShapeInfo::CreateCircleOrEllipse for an ellipse in a horizontal writing
\* mode: the physical radii are the line-axis and block-axis radii.
CreateCircleOrEllipse(aShapeOutside, aShapeBoxRect, aWM, aContainerSize) ==
  LET physicalShapeBoxRect ==
        nsRect(LogicalRectLineLeft(aShapeBoxRect, aWM, aContainerSize),
               aShapeBoxRect.BStart, aShapeBoxRect.ISize, aShapeBoxRect.BSize)
      physicalCenter ==
        PointMoveBy(aShapeOutside.center,
                    physicalShapeBoxRect.x, physicalShapeBoxRect.y)
  IN EllipseShapeInfo(
       PointConvertToFloatLogical(physicalCenter, aWM, aContainerSize),
       aShapeOutside.radii)

\* ShapeInfo::CreateImageShape: NoShape when the image is not ready.
CreateImageShape(aShapeOutside, aWM, aContainerSize) ==
  IF ~aShapeOutside.ready THEN NoShape
  ELSE ImageShapeInfo(aShapeOutside.alpha, aShapeOutside.appUnitsPerDevPixel,
                      aShapeOutside.threshold, aShapeOutside.contentRect,
                      aWM, aContainerSize)

(***************************************************************************)
(* FloatInfo                                                               *)
(***************************************************************************)
\* The switch of the constructor: the shape before it is translated.
\* aRect is mRect.
CreateShapeInfo(aFrame, aRect, aMarginRect, aWM, aContainerSize) ==
  LET shapeOutside == mShapeOutside(aFrame)
      shapeBoxRect == ComputeShapeBoxRect(shapeOutside, aMarginRect)
  IN IF RectIsEmpty(aRect) THEN NoShape
     ELSE CASE shapeOutside.type = "None" -> NoShape
            [] shapeOutside.type = "Image" ->
                 CreateImageShape(shapeOutside, aWM, aContainerSize)
            [] shapeOutside.type = "Box" ->
                 CreateShapeBox(shapeOutside, shapeBoxRect, aWM,
                                aContainerSize)
            [] shapeOutside.type = "Polygon" ->
                 CreatePolygon(shapeOutside, shapeBoxRect, aWM,
                               aContainerSize)
            [] shapeOutside.type = "Ellipse" ->
                 CreateCircleOrEllipse(shapeOutside, shapeBoxRect, aWM,
                                       aContainerSize)

\* The constructor without the closing translation of the shape.
FloatInfo_ShapeNotTranslated(aFrame, aLineLeft, aBlockStart, aMarginRect, aWM, aContainerSize) ==
  LET rect == MoveBy(ConvertToFloatLogical(aMarginRect, aWM, aContainerSize),
                     aLineLeft, aBlockStart)
  IN [mFrame |-> aFrame, mLeftBEnd |-> nscoord_MIN, mRightBEnd |-> nscoord_MIN,
      mRect |-> rect,
      mShapeInfo |-> CreateShapeInfo(aFrame, rect, aMarginRect, aWM,
                                     aContainerSize)]

\* The constructor.  mLeftBEnd and mRightBEnd are left for AddFloat to set.
FloatInfo(aFrame, aLineLeft, aBlockStart, aMarginRect, aWM, aContainerSize) ==
  LET rect == MoveBy(ConvertToFloatLogical(aMarginRect, aWM, aContainerSize),
                     aLineLeft, aBlockStart)
      shape == CreateShapeInfo(aFrame, rect, aMarginRect, aWM, aContainerSize)
  IN [mFrame |-> aFrame, mLeftBEnd |-> nscoord_MIN, mRightBEnd |-> nscoord_MIN,
      mRect |-> rect,
      mShapeInfo |-> IF HasShape(shape)
                     THEN ShapeTranslate(shape, aLineLeft, aBlockStart)
                     ELSE NoShape]

\* The margin-rect accessors FloatInfo::LineLeft(), LineRight(), BStart(),
\* BEnd(), IsEmpty().
RectLineLeft(fi) == fi.mRect.x
RectLineRight(fi) == XMost(fi.mRect)
RectBStart(fi) == fi.mRect.y
RectBEnd(fi) == YMost(fi.mRect)
RectEmpty(fi) == RectIsEmpty(fi.mRect)

\* The accessors that take a ShapeType.
ShapeTypes == {"Margin", "ShapeOutside"}

FloatLineLeft_Unclipped(fi, aShapeType, aBStart, aBEnd) ==
  IF aShapeType = "Margin" \/ ~HasShape(fi.mShapeInfo) THEN RectLineLeft(fi)
  ELSE ShapeLineLeft(fi.mShapeInfo, aBStart, aBEnd)

FloatLineLeft(fi, aShapeType, aBStart, aBEnd) ==
  IF aShapeType = "Margin" \/ ~HasShape(fi.mShapeInfo) THEN RectLineLeft(fi)
  ELSE Max(RectLineLeft(fi), ShapeLineLeft(fi.mShapeInfo, aBStart, aBEnd))

FloatLineRight(fi, aShapeType, aBStart, aBEnd) ==
  IF aShapeType = "Margin" \/ ~HasShape(fi.mShapeInfo) THEN RectLineRight(fi)
  ELSE Min(RectLineRight(fi), ShapeLineRight(fi.mShapeInfo, aBStart, aBEnd))

FloatBStart(fi, aShapeType) ==
  IF aShapeType = "Margin" \/ ~HasShape(fi.mShapeInfo) THEN RectBStart(fi)
  ELSE Max(RectBStart(fi), ShapeBStart(fi.mShapeInfo))

FloatBEnd(fi, aShapeType) ==
  IF aShapeType = "Margin" \/ ~HasShape(fi.mShapeInfo) THEN RectBEnd(fi)
  ELSE Min(RectBEnd(fi), ShapeBEnd(fi.mShapeInfo))

FloatIsEmpty(fi, aShapeType) ==
  IF aShapeType = "Margin" \/ ~HasShape(fi.mShapeInfo) THEN RectEmpty(fi)
  ELSE ShapeIsEmpty(fi.mShapeInfo)

(***************************************************************************)
(* The float manager.  Its operations are written on a record of the       *)
(* member fields; the state variables below hold the fields of the one     *)
(* manager modelled.                                                       *)
(***************************************************************************)
HasAnyFloats(m) == Len(m.mFloats) > 0

\* nsFloatManager::nsFloatManager
NewFloatManager ==
  [mFloats |-> << >>, mLineLeft |-> 0, mBlockStart |-> 0,
   mFloatDamage |-> {},
   mPushedLeftFloatPastBreak |-> FALSE, mPushedRightFloatPastBreak |-> FALSE,
   mSplitLeftFloatAcrossBreak |-> FALSE, mSplitRightFloatAcrossBreak |-> FALSE]

\* AddFloat with the float's own block-end written over the summary of its
\* side, the running maximum forgotten.
AddFloatTo_Overwrite(m, aFloatFrame, aMarginRect, aWM, aContainerSize) ==
  LET info == FloatInfo(aFloatFrame, m.mLineLeft, m.mBlockStart, aMarginRect,
                        aWM, aContainerSize)
      tailLeftBEnd == IF HasAnyFloats(m)
                      THEN m.mFloats[Len(m.mFloats)].mLeftBEnd
                      ELSE nscoord_MIN
      tailRightBEnd == IF HasAnyFloats(m)
                       THEN m.mFloats[Len(m.mFloats)].mRightBEnd
                       ELSE nscoord_MIN
      thisBEnd == RectBEnd(info)
      isLeft == PhysicalFloats(aFloatFrame) = "Left"
  IN [m EXCEPT !.mFloats =
        Append(@, [info EXCEPT
                     !.mLeftBEnd = IF isLeft THEN thisBEnd ELSE tailLeftBEnd,
                     !.mRightBEnd = IF ~isLeft THEN thisBEnd
                                    ELSE tailRightBEnd])]

\* nsFloatManager::AddFloat
AddFloatTo(m, aFloatFrame, aMarginRect, aWM, aContainerSize) ==
  LET info == FloatInfo(aFloatFrame, m.mLineLeft, m.mBlockStart, aMarginRect,
                        aWM, aContainerSize)
      tailLeftBEnd == IF HasAnyFloats(m)
                      THEN m.mFloats[Len(m.mFloats)].mLeftBEnd
                      ELSE nscoord_MIN
      tailRightBEnd == IF HasAnyFloats(m)
                       THEN m.mFloats[Len(m.mFloats)].mRightBEnd
                       ELSE nscoord_MIN
      thisBEnd == RectBEnd(info)
      isLeft == PhysicalFloats(aFloatFrame) = "Left"
  IN [m EXCEPT !.mFloats =
        Append(@, [info EXCEPT
                     !.mLeftBEnd = IF isLeft /\ thisBEnd > tailLeftBEnd
                                   THEN thisBEnd ELSE tailLeftBEnd,
                     !.mRightBEnd = IF ~isLeft /\ thisBEnd > tailRightBEnd
                                    THEN thisBEnd ELSE tailRightBEnd])]

\* nsFloatManager::RemoveTrailingRegions.  aFrameList is the set of the
\* frames of the sibling list; the empty set is the null list.
RECURSIVE TrailingNewLength(_, _, _)
TrailingNewLength(aFloats, frameSet, newLength) ==
  IF newLength > 0 /\ aFloats[newLength].mFrame \in frameSet
  THEN TrailingNewLength(aFloats, frameSet, newLength - 1)
  ELSE newLength

\* RemoveTrailingRegions dropping every entry whose frame is in the list,
\* trailing or not.
RemoveTrailingRegionsFrom_Everywhere(m, aFrameList) ==
  [m EXCEPT !.mFloats =
     SelectSeq(@, LAMBDA fi : fi.mFrame \notin aFrameList)]

RemoveTrailingRegionsFrom(m, aFrameList) ==
  IF aFrameList = {} THEN m
  ELSE [m EXCEPT !.mFloats =
          SubSeq(@, 1, TrailingNewLength(@, aFrameList, Len(@)))]

\* nsFloatManager::PushState: the SavedState it fills in.
NoState == [null |-> TRUE]

PushStateOf(m) ==
  [mLineLeft |-> m.mLineLeft,
   mBlockStart |-> m.mBlockStart,
   mPushedLeftFloatPastBreak |-> m.mPushedLeftFloatPastBreak,
   mPushedRightFloatPastBreak |-> m.mPushedRightFloatPastBreak,
   mSplitLeftFloatAcrossBreak |-> m.mSplitLeftFloatAcrossBreak,
   mSplitRightFloatAcrossBreak |-> m.mSplitRightFloatAcrossBreak,
   mFloatInfoCount |-> Len(m.mFloats)]

\* PopState with one break flag left as it is.
PopStateOf_KeepsSplitFlag(m, aState) ==
  [mFloats |-> SubSeq(m.mFloats, 1, aState.mFloatInfoCount),
   mLineLeft |-> aState.mLineLeft,
   mBlockStart |-> aState.mBlockStart,
   mPushedLeftFloatPastBreak |-> aState.mPushedLeftFloatPastBreak,
   mPushedRightFloatPastBreak |-> aState.mPushedRightFloatPastBreak,
   mSplitLeftFloatAcrossBreak |-> aState.mSplitLeftFloatAcrossBreak,
   mSplitRightFloatAcrossBreak |-> m.mSplitRightFloatAcrossBreak,
   mFloatDamage |-> m.mFloatDamage]

\* PopState with the float list left untruncated.
PopStateOf_KeepsFloats(m, aState) ==
  [mFloats |-> m.mFloats,
   mLineLeft |-> aState.mLineLeft,
   mBlockStart |-> aState.mBlockStart,
   mPushedLeftFloatPastBreak |-> aState.mPushedLeftFloatPastBreak,
   mPushedRightFloatPastBreak |-> aState.mPushedRightFloatPastBreak,
   mSplitLeftFloatAcrossBreak |-> aState.mSplitLeftFloatAcrossBreak,
   mSplitRightFloatAcrossBreak |-> aState.mSplitRightFloatAcrossBreak,
   mFloatDamage |-> m.mFloatDamage]

\* PopState emptying the damage.
PopStateOf_ClearsDamage(m, aState) ==
  [mFloats |-> SubSeq(m.mFloats, 1, aState.mFloatInfoCount),
   mLineLeft |-> aState.mLineLeft,
   mBlockStart |-> aState.mBlockStart,
   mPushedLeftFloatPastBreak |-> aState.mPushedLeftFloatPastBreak,
   mPushedRightFloatPastBreak |-> aState.mPushedRightFloatPastBreak,
   mSplitLeftFloatAcrossBreak |-> aState.mSplitLeftFloatAcrossBreak,
   mSplitRightFloatAcrossBreak |-> aState.mSplitRightFloatAcrossBreak,
   mFloatDamage |-> {}]

\* nsFloatManager::PopState
PopStateOf(m, aState) ==
  [mFloats |-> SubSeq(m.mFloats, 1, aState.mFloatInfoCount),
   mLineLeft |-> aState.mLineLeft,
   mBlockStart |-> aState.mBlockStart,
   mPushedLeftFloatPastBreak |-> aState.mPushedLeftFloatPastBreak,
   mPushedRightFloatPastBreak |-> aState.mPushedRightFloatPastBreak,
   mSplitLeftFloatAcrossBreak |-> aState.mSplitLeftFloatAcrossBreak,
   mSplitRightFloatAcrossBreak |-> aState.mSplitRightFloatAcrossBreak,
   mFloatDamage |-> m.mFloatDamage]

\* nsFloatManager::IncludeInDamage: the interval, moved by the block origin,
\* joins the damage.  The damage is kept as the set of the intervals given.
IncludeInDamageOf(m, aIntervalBegin, aIntervalEnd) ==
  [m EXCEPT !.mFloatDamage =
     @ \cup { << aIntervalBegin + m.mBlockStart,
                 aIntervalEnd + m.mBlockStart >> }]

\* nsFloatManager::Translate
TranslateOf(m, aLineLeft, aBlockStart) ==
  [m EXCEPT !.mLineLeft = @ + aLineLeft, !.mBlockStart = @ + aBlockStart]

\* The setters of the four break flags.
BreakFlags == {"mPushedLeftFloatPastBreak", "mPushedRightFloatPastBreak",
               "mSplitLeftFloatAcrossBreak", "mSplitRightFloatAcrossBreak"}
SetBreakFlagOf(m, aFlag) == [m EXCEPT ![aFlag] = TRUE]

\* GetLowestFloatTop taking the split flags for pushed ones.
GetLowestFloatTop_SplitCounts(m) ==
  IF \/ m.mPushedLeftFloatPastBreak \/ m.mPushedRightFloatPastBreak
     \/ m.mSplitLeftFloatAcrossBreak \/ m.mSplitRightFloatAcrossBreak
  THEN nscoord_MAX
  ELSE IF ~HasAnyFloats(m) THEN nscoord_MIN
  ELSE RectBStart(m.mFloats[Len(m.mFloats)]) - m.mBlockStart

\* nsFloatManager::GetLowestFloatTop
GetLowestFloatTop(m) ==
  IF m.mPushedLeftFloatPastBreak \/ m.mPushedRightFloatPastBreak
  THEN nscoord_MAX
  ELSE IF ~HasAnyFloats(m) THEN nscoord_MIN
  ELSE RectBStart(m.mFloats[Len(m.mFloats)]) - m.mBlockStart

\* nsFloatManager::ClearContinues
StyleClears == {"None", "Left", "Right", "Both"}

\* ClearContinues looking at the pushed flags only.
ClearContinues_PushedOnly(m, aBreakType) ==
  \/ /\ m.mPushedLeftFloatPastBreak
     /\ aBreakType = "Both" \/ aBreakType = "Left"
  \/ /\ m.mPushedRightFloatPastBreak
     /\ aBreakType = "Both" \/ aBreakType = "Right"

ClearContinues(m, aBreakType) ==
  \/ /\ m.mPushedLeftFloatPastBreak \/ m.mSplitLeftFloatAcrossBreak
     /\ aBreakType = "Both" \/ aBreakType = "Left"
  \/ /\ m.mPushedRightFloatPastBreak \/ m.mSplitRightFloatAcrossBreak
     /\ aBreakType = "Both" \/ aBreakType = "Right"

\* nsFloatManager::ClearFloats.  aFlags is the set of the flag bits given.
ClearFlagSets == {{}, {"DONT_CLEAR_PUSHED_FLOATS"}}

\* ClearFloats clearing only the left floats for StyleClear::Both.
ClearFloats_BothClearsLeft(m, aBCoord, aBreakType, aFlags) ==
  IF "DONT_CLEAR_PUSHED_FLOATS" \notin aFlags /\ ClearContinues(m, aBreakType)
  THEN nscoord_MAX
  ELSE IF ~HasAnyFloats(m) THEN aBCoord
  ELSE LET blockEnd == aBCoord + m.mBlockStart
           tail == m.mFloats[Len(m.mFloats)]
           cleared ==
             CASE aBreakType = "Both" -> Max(blockEnd, tail.mLeftBEnd)
               [] aBreakType = "Left" -> Max(blockEnd, tail.mLeftBEnd)
               [] aBreakType = "Right" -> Max(blockEnd, tail.mRightBEnd)
               [] OTHER -> blockEnd
       IN cleared - m.mBlockStart

ClearFloats(m, aBCoord, aBreakType, aFlags) ==
  IF "DONT_CLEAR_PUSHED_FLOATS" \notin aFlags /\ ClearContinues(m, aBreakType)
  THEN nscoord_MAX
  ELSE IF ~HasAnyFloats(m) THEN aBCoord
  ELSE LET blockEnd == aBCoord + m.mBlockStart
           tail == m.mFloats[Len(m.mFloats)]
           cleared ==
             CASE aBreakType = "Both" ->
                    Max(Max(blockEnd, tail.mLeftBEnd), tail.mRightBEnd)
               [] aBreakType = "Left" -> Max(blockEnd, tail.mLeftBEnd)
               [] aBreakType = "Right" -> Max(blockEnd, tail.mRightBEnd)
               [] OTHER -> blockEnd
       IN cleared - m.mBlockStart

(***************************************************************************)
(* nsFloatManager::GetFlowArea                                             *)
(***************************************************************************)
BandInfoTypes == {"BandFromPoint", "WidthWithinHeight"}

\* nsFlowAreaRect
nsFlowAreaRect(aIStart, aBStart, aISize, aBSize, aHasFloats) ==
  [IStart |-> aIStart, BStart |-> aBStart, ISize |-> aISize, BSize |-> aBSize,
   mHasFloats |-> aHasFloats]

\* The early return when there are no floats in scope or the band starts
\* below the last of them, and the rect it returns.
BelowLastFloat(aFloats, floatCount, blockStart) ==
  \/ floatCount = 0
  \/ /\ aFloats[floatCount].mLeftBEnd <= blockStart
     /\ aFloats[floatCount].mRightBEnd <= blockStart

\* The early return with the block start left in the manager's coordinates.
QuickFlowArea_Absolute(m, aContentArea, aBCoord, aBSize) ==
  nsFlowAreaRect(aContentArea.IStart, aBCoord + m.mBlockStart,
                 aContentArea.ISize, aBSize, FALSE)

QuickFlowArea(m, aContentArea, aBCoord, aBSize) ==
  nsFlowAreaRect(aContentArea.IStart, aBCoord, aContentArea.ISize, aBSize,
                 FALSE)

\* The end of the band: blockStart + aBSize, saturated at nscoord_MAX.
BandBlockEnd(blockStart, aBSize) ==
  IF aBSize = nscoord_MAX THEN nscoord_MAX
  ELSE IF \/ blockStart + aBSize < blockStart
          \/ blockStart + aBSize > nscoord_MAX
  THEN nscoord_MAX
  ELSE blockStart + aBSize

\* The walk ended by the left summary alone.
NoMoreFloats_LeftOnly(fi, blockStart) ==
  fi.mLeftBEnd <= blockStart

\* The test that ends the backward walk at float fi.
NoMoreFloats(fi, blockStart) ==
  fi.mLeftBEnd <= blockStart /\ fi.mRightBEnd <= blockStart

\* The band's end moved to the start of a float below without comparing.
ShrinkToFloatBelow_Unconditional(band, floatBStart) ==
  [band EXCEPT !.blockEnd = floatBStart]

\* "This float is below our band": the band's end moves up to its start.
ShrinkToFloatBelow(band, floatBStart) ==
  IF floatBStart < band.blockEnd THEN [band EXCEPT !.blockEnd = floatBStart]
  ELSE band

\* The band test without the clause for a zero-height band.
FloatInBand_NoZeroHeight(blockStart, blockEnd, floatBStart, floatBEnd) ==
  /\ blockStart < floatBEnd
  /\ floatBStart < blockEnd

\* "This float is in our band."
FloatInBand(blockStart, blockEnd, floatBStart, floatBEnd) ==
  /\ blockStart < floatBEnd
  /\ \/ floatBStart < blockEnd
     \/ floatBStart = blockEnd /\ blockStart = blockEnd

\* The width shrunk to the float's edge without comparing it with the band.
ShrinkBandWidth_Unconditional(fi, band, blockStart, aBandInfoType, aShapeType) ==
  LET bandBlockEnd == IF aBandInfoType = "BandFromPoint" THEN blockStart
                      ELSE band.blockEnd
  IN IF PhysicalFloats(fi.mFrame) = "Left"
     THEN [band EXCEPT
             !.lineLeft = FloatLineRight(fi, aShapeType, blockStart,
                                         bandBlockEnd),
             !.haveFloats = TRUE]
     ELSE [band EXCEPT
             !.lineRight = FloatLineLeft(fi, aShapeType, blockStart,
                                         bandBlockEnd),
             !.haveFloats = TRUE]

\* The flag set for every float in the band, narrowing or not.
ShrinkBandWidth_AlwaysFlags(fi, band, blockStart, aBandInfoType, aShapeType) ==
  LET bandBlockEnd == IF aBandInfoType = "BandFromPoint" THEN blockStart
                      ELSE band.blockEnd
  IN IF PhysicalFloats(fi.mFrame) = "Left"
     THEN LET lineRightEdge ==
                FloatLineRight(fi, aShapeType, blockStart, bandBlockEnd)
          IN [band EXCEPT !.lineLeft = Max(@, lineRightEdge),
                          !.haveFloats = TRUE]
     ELSE LET lineLeftEdge ==
                FloatLineLeft(fi, aShapeType, blockStart, bandBlockEnd)
          IN [band EXCEPT !.lineRight = Min(@, lineLeftEdge),
                          !.haveFloats = TRUE]

\* "Shrink our band's width if needed."
ShrinkBandWidth(fi, band, blockStart, aBandInfoType, aShapeType) ==
  LET bandBlockEnd == IF aBandInfoType = "BandFromPoint" THEN blockStart
                      ELSE band.blockEnd
  IN IF PhysicalFloats(fi.mFrame) = "Left"
     THEN LET lineRightEdge ==
                FloatLineRight(fi, aShapeType, blockStart, bandBlockEnd)
          IN IF lineRightEdge > band.lineLeft
             THEN [band EXCEPT !.lineLeft = lineRightEdge, !.haveFloats = TRUE]
             ELSE band
     ELSE LET lineLeftEdge ==
                FloatLineLeft(fi, aShapeType, blockStart, bandBlockEnd)
          IN IF lineLeftEdge < band.lineRight
             THEN [band EXCEPT !.lineRight = lineLeftEdge, !.haveFloats = TRUE]
             ELSE band

\* The band's end left where it is when a float in the band ends above it.
ShrinkBandHeight_Never(band, floatBEnd, aBandInfoType) ==
  band

\* "Shrink our band's height if needed."
ShrinkBandHeight(band, floatBEnd, aBandInfoType) ==
  IF floatBEnd < band.blockEnd /\ aBandInfoType = "BandFromPoint"
  THEN [band EXCEPT !.blockEnd = floatBEnd]
  ELSE band

\* The body of the backward walk for one float fi; band holds lineLeft,
\* lineRight, blockEnd and haveFloats.
FlowAreaVisit(fi, band, blockStart, aBandInfoType, aShapeType) ==
  LET floatBStart == FloatBStart(fi, aShapeType)
      floatBEnd == FloatBEnd(fi, aShapeType)
  IN IF FloatIsEmpty(fi, aShapeType) THEN band
     ELSE IF blockStart < floatBStart /\ aBandInfoType = "BandFromPoint"
     THEN ShrinkToFloatBelow(band, floatBStart)
     ELSE IF FloatInBand(blockStart, band.blockEnd, floatBStart, floatBEnd)
     THEN ShrinkBandHeight(
            ShrinkBandWidth(fi, band, blockStart, aBandInfoType, aShapeType),
            floatBEnd, aBandInfoType)
     ELSE band

\* The backward walk from float i down.
RECURSIVE FlowAreaWalk(_, _, _, _, _, _)
FlowAreaWalk(aFloats, i, band, blockStart, aBandInfoType, aShapeType) ==
  IF i = 0 THEN band
  ELSE IF NoMoreFloats(aFloats[i], blockStart) THEN band
  ELSE FlowAreaWalk(aFloats, i - 1,
                    FlowAreaVisit(aFloats[i], band, blockStart, aBandInfoType,
                                  aShapeType),
                    blockStart, aBandInfoType, aShapeType)

\* The saved state passed over: every float counts.
FloatCountFor_IgnoresState(m, aState) == Len(m.mFloats)

\* "Determine the last float that we should consider."
FloatCountFor(m, aState) ==
  IF aState # NoState THEN aState.mFloatInfoCount ELSE Len(m.mFloats)

GetFlowArea(m, aWM, aBCoord, aBSize, aBandInfoType, aShapeType, aContentArea, aState, aContainerSize) ==
  LET blockStart == IF aBCoord + m.mBlockStart < nscoord_MIN THEN nscoord_MIN
                    ELSE aBCoord + m.mBlockStart
      floatCount == FloatCountFor(m, aState)
      lineLeft == m.mLineLeft
                    + LogicalRectLineLeft(aContentArea, aWM, aContainerSize)
      lineRight0 == m.mLineLeft
                      + LogicalRectLineRight(aContentArea, aWM, aContainerSize)
      lineRight == IF lineRight0 < lineLeft THEN lineLeft ELSE lineRight0
      band == FlowAreaWalk(m.mFloats, floatCount,
                           [lineLeft |-> lineLeft, lineRight |-> lineRight,
                            blockEnd |-> BandBlockEnd(blockStart, aBSize),
                            haveFloats |-> FALSE],
                           blockStart, aBandInfoType, aShapeType)
      blockSize == IF band.blockEnd = nscoord_MAX THEN nscoord_MAX
                   ELSE band.blockEnd - blockStart
      inlineStart == IF IsBidiLTR(aWM) THEN band.lineLeft - m.mLineLeft
                     ELSE m.mLineLeft - band.lineRight + aContainerSize
  IN IF BelowLastFloat(m.mFloats, floatCount, blockStart)
     THEN QuickFlowArea(m, aContentArea, aBCoord, aBSize)
     ELSE nsFlowAreaRect(inlineStart, blockStart - m.mBlockStart,
                         band.lineRight - band.lineLeft, blockSize,
                         band.haveFloats)

(***************************************************************************)
(* CalculateRegionFor.  A frame's rect is its normal position and size in  *)
(* physical coordinates; a LogicalMargin has the widths of the four sides. *)
(***************************************************************************)
\* LogicalRect(aWM, const nsRect&, aContainerSize) for a horizontal writing
\* mode.
LogicalRectFromPhysical(aWM, aRect, aContainerSize) ==
  LogicalRect(IF IsBidiLTR(aWM) THEN aRect.x
              ELSE aContainerSize - XMost(aRect),
              aRect.y, aRect.width, aRect.height)

LogicalMargin(aIStart, aIEnd, aBStart, aBEnd) ==
  [IStart |-> aIStart, IEnd |-> aIEnd, BStart |-> aBStart, BEnd |-> aBEnd]

\* LogicalRect::Inflate
Inflate(aRect, aMargin) ==
  LogicalRect(aRect.IStart - aMargin.IStart, aRect.BStart - aMargin.BStart,
              aRect.ISize + aMargin.IStart + aMargin.IEnd,
              aRect.BSize + aMargin.BStart + aMargin.BEnd)

IEnd(aRect) == aRect.IStart + aRect.ISize

\* The collapse of a negative inline size that looks at the float's side
\* only.
CollapseInline_IgnoresDirection(aWM, aFloat, region) ==
  IF region.ISize < 0
  THEN [region EXCEPT
          !.IStart = IF PhysicalFloats(aFloat) = "Left" THEN IEnd(region)
                     ELSE @,
          !.ISize = 0]
  ELSE region

\* The first test of CalculateRegionFor.
CollapseInline(aWM, aFloat, region) ==
  IF region.ISize < 0
  THEN [region EXCEPT
          !.IStart = IF (PhysicalFloats(aFloat) = "Left") = IsBidiLTR(aWM)
                     THEN IEnd(region) ELSE @,
          !.ISize = 0]
  ELSE region

\* nsFloatManager::CalculateRegionFor.  aFrameRect is
\* nsRect(aFloat->GetNormalPosition(), aFloat->GetSize()).
CalculateRegionFor(aWM, aFloat, aFrameRect, aMargin, aContainerSize) ==
  LET inflated == Inflate(LogicalRectFromPhysical(aWM, aFrameRect,
                                                  aContainerSize), aMargin)
      region == CollapseInline(aWM, aFloat, inflated)
  IN IF region.BSize < 0 THEN [region EXCEPT !.BSize = 0] ELSE region

(***************************************************************************)
(* The cache of manager storage.  The allocator is a record of the two     *)
(* statics, of the heap as malloc and free see it, and of whether Shutdown *)
(* has run.  A block of the heap is "unused" until malloc returns it,      *)
(* "inuse" while a manager lives in it, "idle" once deleted and not freed, *)
(* and "freed"; frees counts the calls of free on it and atShutdown marks  *)
(* the blocks Shutdown found in the cache.                                 *)
(***************************************************************************)
NS_FLOAT_MANAGER_CACHE_SIZE == 2
MaxBlocks == 4
Blocks == 1..MaxBlocks
nullptr == 0

NewAllocator ==
  [sCachedFloatManagerCount |-> 0,
   sCachedFloatManagers |->
     [i \in 0..(NS_FLOAT_MANAGER_CACHE_SIZE - 1) |-> nullptr],
   heap |-> [b \in Blocks |->
               [state |-> "unused", frees |-> 0, atShutdown |-> FALSE]],
   isShutDown |-> FALSE]

free(aHeap, aPtr) ==
  [aHeap EXCEPT ![aPtr].state = "freed", ![aPtr].frees = @ + 1]

\* operator new; aFresh is the block moz_xmalloc returns if it is called.
OperatorNew(a, aFresh) ==
  IF a.sCachedFloatManagerCount > 0
  THEN LET ptr == a.sCachedFloatManagers[a.sCachedFloatManagerCount - 1]
       IN [alloc |-> [a EXCEPT !.sCachedFloatManagerCount = @ - 1,
                               !.heap[ptr].state = "inuse"],
           result |-> ptr]
  ELSE [alloc |-> [a EXCEPT !.heap[aFresh].state = "inuse"],
        result |-> aFresh]

\* operator delete that drops the block when the cache has no room.
OperatorDelete_DropsWhenFull(a, aPtr) ==
  IF aPtr = nullptr THEN a
  ELSE IF /\ a.sCachedFloatManagerCount < NS_FLOAT_MANAGER_CACHE_SIZE
          /\ a.sCachedFloatManagerCount >= 0
  THEN [a EXCEPT !.sCachedFloatManagers[a.sCachedFloatManagerCount] = aPtr,
                 !.sCachedFloatManagerCount = @ + 1,
                 !.heap[aPtr].state = "idle"]
  ELSE a

\* operator delete
OperatorDelete(a, aPtr) ==
  IF aPtr = nullptr THEN a
  ELSE IF /\ a.sCachedFloatManagerCount < NS_FLOAT_MANAGER_CACHE_SIZE
          /\ a.sCachedFloatManagerCount >= 0
  THEN [a EXCEPT !.sCachedFloatManagers[a.sCachedFloatManagerCount] = aPtr,
                 !.sCachedFloatManagerCount = @ + 1,
                 !.heap[aPtr].state = "idle"]
  ELSE [a EXCEPT !.heap = free(@, aPtr)]

\* The loop of Shutdown from index i on.
RECURSIVE ShutdownLoop(_, _)
ShutdownLoop(a, i) ==
  IF i >= a.sCachedFloatManagerCount THEN a
  ELSE LET floatManager == a.sCachedFloatManagers[i]
       IN ShutdownLoop(
            IF floatManager # nullptr
            THEN [a EXCEPT !.heap = free(@, floatManager),
                           !.heap[floatManager].atShutdown = TRUE]
            ELSE a,
            i + 1)

\* Shutdown that empties the cache and leaves caching on.
Shutdown_LeavesCachingOn(a) ==
  [ShutdownLoop(a, 0) EXCEPT !.sCachedFloatManagerCount = 0,
                             !.isShutDown = TRUE]

\* nsFloatManager::Shutdown
Shutdown(a) ==
  [ShutdownLoop(a, 0) EXCEPT !.sCachedFloatManagerCount = -1,
                             !.isShutDown = TRUE]

(***************************************************************************)
(* State                                                                   *)
(***************************************************************************)
VARIABLES
  mFloats,                      \* nsTArray<FloatInfo>
  mLineLeft, mBlockStart,       \* the origin
  mPushedLeftFloatPastBreak, mPushedRightFloatPastBreak,
  mSplitLeftFloatAcrossBreak, mSplitRightFloatAcrossBreak,
  mFloatDamage,                 \* the damage sink
  sCachedFloatManagerCount,     \* the statics of the storage cache
  sCachedFloatManagers,
  heap,                         \* history: the blocks of malloc and free
  isShutDown,                   \* history: Shutdown has run
  savedState,                   \* the caller's SavedState, NoState until pushed
  pushed,                       \* history: the manager as PushState saw it
  last                          \* the last call made and what it returned

statics == << sCachedFloatManagerCount, sCachedFloatManagers, heap,
              isShutDown >>

vars == << mFloats, mLineLeft, mBlockStart, mPushedLeftFloatPastBreak,
           mPushedRightFloatPastBreak, mSplitLeftFloatAcrossBreak,
           mSplitRightFloatAcrossBreak, mFloatDamage, statics, savedState,
           pushed, last >>

\* The manager as a record of its fields.
This ==
  [mFloats |-> mFloats, mLineLeft |-> mLineLeft, mBlockStart |-> mBlockStart,
   mPushedLeftFloatPastBreak |-> mPushedLeftFloatPastBreak,
   mPushedRightFloatPastBreak |-> mPushedRightFloatPastBreak,
   mSplitLeftFloatAcrossBreak |-> mSplitLeftFloatAcrossBreak,
   mSplitRightFloatAcrossBreak |-> mSplitRightFloatAcrossBreak,
   mFloatDamage |-> mFloatDamage]

Become(m) ==
  /\ mFloats' = m.mFloats
  /\ mLineLeft' = m.mLineLeft
  /\ mBlockStart' = m.mBlockStart
  /\ mPushedLeftFloatPastBreak' = m.mPushedLeftFloatPastBreak
  /\ mPushedRightFloatPastBreak' = m.mPushedRightFloatPastBreak
  /\ mSplitLeftFloatAcrossBreak' = m.mSplitLeftFloatAcrossBreak
  /\ mSplitRightFloatAcrossBreak' = m.mSplitRightFloatAcrossBreak
  /\ mFloatDamage' = m.mFloatDamage

\* The allocator as a record of the statics.
Allocator ==
  [sCachedFloatManagerCount |-> sCachedFloatManagerCount,
   sCachedFloatManagers |-> sCachedFloatManagers,
   heap |-> heap, isShutDown |-> isShutDown]

BecomeAllocator(a) ==
  /\ sCachedFloatManagerCount' = a.sCachedFloatManagerCount
  /\ sCachedFloatManagers' = a.sCachedFloatManagers
  /\ heap' = a.heap
  /\ isShutDown' = a.isShutDown

NoPush == [null |-> TRUE]

\* The history of the push in effect after a call that is not one of
\* AddFloat, Translate or a flag setter.
Disturbed ==
  IF pushed = NoPush THEN NoPush
  ELSE [pushed EXCEPT !.onlyAdds = FALSE, !.mgr.mFloats = << >>]

(***************************************************************************)
(* Bounds and inputs                                                       *)
(***************************************************************************)
MaxFloats == 2

\* The origins the translations move the manager between.
Origins == 0..1

ContainerSizes == {4}

\* The floats handed to AddFloat: frame, margin rect, writing mode.
\* A polygon float, a right float given in RTL, a left float wider than the
\* container, a right float of zero inline size, and a right float whose
\* shape is a box inside its margin rect.
FloatInputs ==
  { [frame |-> "fP", rect |-> LogicalRect(0, 0, 2, 2), wm |-> "ltr"],
    [frame |-> "fR", rect |-> LogicalRect(0, 1, 2, 2), wm |-> "rtl"],
    [frame |-> "fL", rect |-> LogicalRect(0, 1, 5, 1), wm |-> "ltr"],
    [frame |-> "fR", rect |-> LogicalRect(3, 0, 0, 3), wm |-> "ltr"],
    [frame |-> "fB", rect |-> LogicalRect(2, 0, 2, 3), wm |-> "ltr"] }

\* The floats of the specifications that exercise the break flags.
ClearInputs ==
  { [frame |-> "fL", rect |-> LogicalRect(0, 0, 2, 2), wm |-> "ltr"],
    [frame |-> "fR", rect |-> LogicalRect(0, 1, 2, 2), wm |-> "rtl"] }
StateInputs ==
  { [frame |-> "fL", rect |-> LogicalRect(0, 0, 2, 2), wm |-> "ltr"] }

Translations == { << 1, 1 >>, << -1, -1 >> }

FrameLists == SUBSET {"fL", "fR"}
StateFrameLists == SUBSET {"fL"}

\* The floats of the specification that queries under a saved state.
SavedInputs ==
  { [frame |-> "fP", rect |-> LogicalRect(0, 0, 2, 2), wm |-> "ltr"],
    [frame |-> "fR", rect |-> LogicalRect(0, 1, 2, 2), wm |-> "rtl"] }

\* The floats of the specification that reads the edges of floats and
\* shapes: a polygon that reaches outside its margin box, an ellipse wider
\* than its margin box, a box with rounded corners given in RTL, an image,
\* and a float without a shape.
ShapeInputs ==
  { [frame |-> "fQ", rect |-> LogicalRect(0, 0, 2, 2), wm |-> "ltr"],
    [frame |-> "fE", rect |-> LogicalRect(0, 0, 4, 4), wm |-> "ltr"],
    [frame |-> "fO", rect |-> LogicalRect(0, 0, 4, 4), wm |-> "rtl"],
    [frame |-> "fI", rect |-> LogicalRect(0, 0, 2, 4), wm |-> "ltr"],
    [frame |-> "fL", rect |-> LogicalRect(0, 1, 5, 1), wm |-> "ltr"] }

\* The block coordinates of the bands the edges are read for.
BandCoords == -1..6

\* The floats of the specification that queries around polygons without
\* area: a left float whose polygon has collinear vertices, a right float
\* whose polygon has two vertices, a polygon float and a plain right float.
EmptyShapeInputs ==
  { [frame |-> "fC", rect |-> LogicalRect(0, 0, 2, 2), wm |-> "ltr"],
    [frame |-> "fT", rect |-> LogicalRect(2, 1, 2, 2), wm |-> "ltr"],
    [frame |-> "fP", rect |-> LogicalRect(0, 0, 2, 2), wm |-> "ltr"],
    [frame |-> "fR", rect |-> LogicalRect(0, 1, 2, 2), wm |-> "rtl"] }

\* The frames CalculateRegionFor is asked about: rects of positive and of
\* zero size, and margins that leave the sizes positive, make the inline
\* size negative, the block size negative, or both.
RegionRects == { nsRect(1, 1, 2, 2), nsRect(0, 2, 3, 0), nsRect(2, 0, 0, 1) }
RegionMargins ==
  { LogicalMargin(i, e, b, 0) : i \in {-3, 0, 1}, e \in {-2, 1},
                                b \in {-3, 0, 1} }

\* The triangle float of 200 by 200 and the bands asked about around it,
\* over a content area of 1000.
TriangleInput == [frame |-> "fH", rect |-> LogicalRect(0, 0, 200, 200), wm |-> "ltr"]
TriangleContainerSize == 1000
TriangleContentArea == LogicalRect(0, 0, 1000, 0)
TriangleBCoords == {0, 50, 100, 150, 155, 190, 200}
TriangleBSizes == {0, 10, 50}

\* The polygons whose edges are read directly, by their vertices in the
\* float's coordinates: a diamond, a triangle with a horizontal edge, a kite
\* with a vertex on one side, and a polygon that is not convex, whose vertex
\* (5, 2) has both neighbours before it on the block axis.
PolygonInputs ==
  { << nsPoint(1, -1), nsPoint(3, 1), nsPoint(1, 3), nsPoint(-1, 1) >>,
    << nsPoint(0, 0), nsPoint(2, 0), nsPoint(0, 2) >>,
    << nsPoint(0, 0), nsPoint(4, 2), nsPoint(0, 4) >>,
    << nsPoint(0, 0), nsPoint(3, 0), nsPoint(5, 2), nsPoint(2, 1),
       nsPoint(1, 4) >> }

\* The floats of the specification that queries around image shapes: a
\* left float and a right float, the latter given in RTL.
ImageInputs ==
  { [frame |-> "fI", rect |-> LogicalRect(0, 0, 2, 4), wm |-> "ltr"],
    [frame |-> "fJ", rect |-> LogicalRect(0, 0, 4, 4), wm |-> "rtl"] }

\* The vertex lists polygons are constructed from: every list of two to
\* four points of a grid of three by two.
GridPoints == { nsPoint(x, y) : x \in 0..2, y \in 0..1 }
VertexCounts == 2..4
VertexLists == UNION { [1..n -> GridPoints] : n \in VertexCounts }

\* The floats of the specification that queries around shapes lying
\* outside the block extent of their margin box, and the bands asked about.
OutsideInputs ==
  { [frame |-> "fS", rect |-> LogicalRect(0, 0, 2, 2), wm |-> "ltr"],
    [frame |-> "fU", rect |-> LogicalRect(2, 1, 2, 2), wm |-> "ltr"],
    [frame |-> "fR", rect |-> LogicalRect(0, 1, 2, 2), wm |-> "rtl"] }
OutsideBCoords == -3..4
OutsideBSizes == {0, 1, 3, 5, nscoord_MAX - 1, nscoord_MAX}

BCoords == 0..3
BSizes == {0, 2, nscoord_MAX - 1, nscoord_MAX}
ContentAreas ==
  { [wm |-> "ltr", area |-> LogicalRect(0, 0, 4, 0)],
    [wm |-> "rtl", area |-> LogicalRect(0, 0, 4, 0)],
    [wm |-> "ltr", area |-> LogicalRect(1, 0, 2, 0)] }

(***************************************************************************)
(* Actions                                                                 *)
(***************************************************************************)
Init ==
  /\ mFloats = NewFloatManager.mFloats
  /\ mLineLeft = NewFloatManager.mLineLeft
  /\ mBlockStart = NewFloatManager.mBlockStart
  /\ mPushedLeftFloatPastBreak = NewFloatManager.mPushedLeftFloatPastBreak
  /\ mPushedRightFloatPastBreak = NewFloatManager.mPushedRightFloatPastBreak
  /\ mSplitLeftFloatAcrossBreak = NewFloatManager.mSplitLeftFloatAcrossBreak
  /\ mSplitRightFloatAcrossBreak = NewFloatManager.mSplitRightFloatAcrossBreak
  /\ mFloatDamage = NewFloatManager.mFloatDamage
  /\ sCachedFloatManagerCount = NewAllocator.sCachedFloatManagerCount
  /\ sCachedFloatManagers = NewAllocator.sCachedFloatManagers
  /\ heap = NewAllocator.heap
  /\ isShutDown = NewAllocator.isShutDown
  /\ savedState = NoState
  /\ pushed = NoPush
  /\ last = [op |-> "new"]

AddFloat(aFloatFrame, aMarginRect, aWM, aContainerSize) ==
  /\ Len(mFloats) < MaxFloats
  /\ Become(AddFloatTo(This, aFloatFrame, aMarginRect, aWM, aContainerSize))
  /\ last' = [op |-> "AddFloat", aFloatFrame |-> aFloatFrame,
              aMarginRect |-> aMarginRect, aWM |-> aWM,
              aContainerSize |-> aContainerSize]
  /\ UNCHANGED << savedState, pushed, statics >>

RemoveTrailingRegions(aFrameList) ==
  /\ Become(RemoveTrailingRegionsFrom(This, aFrameList))
  /\ pushed' = Disturbed
  /\ last' = [op |-> "RemoveTrailingRegions", aFrameList |-> aFrameList,
              removed |-> Len(mFloats)
                            - Len(RemoveTrailingRegionsFrom(This, aFrameList)
                                    .mFloats)]
  /\ UNCHANGED << savedState, statics >>

PushState ==
  /\ savedState' = PushStateOf(This)
  /\ pushed' = [mgr |-> This, count |-> Len(mFloats), onlyAdds |-> TRUE]
  /\ last' = [op |-> "PushState"]
  /\ UNCHANGED << mFloats, mLineLeft, mBlockStart, mPushedLeftFloatPastBreak,
                  mPushedRightFloatPastBreak, mSplitLeftFloatAcrossBreak,
                  mSplitRightFloatAcrossBreak, mFloatDamage, statics >>

\* PopState asserts aState->mFloatInfoCount <= mFloats.Length(); a pop that
\* breaks this is a misuse the model does not make.
PopState ==
  /\ savedState # NoState
  /\ savedState.mFloatInfoCount <= Len(mFloats)
  /\ Become(PopStateOf(This, savedState))
  /\ pushed' = [pushed EXCEPT !.onlyAdds = FALSE]
  /\ last' = [op |-> "PopState", onlyAdds |-> pushed.onlyAdds,
              undone |-> /\ Len(mFloats) > savedState.mFloatInfoCount
                         /\ mBlockStart # savedState.mBlockStart
                         /\ mSplitRightFloatAcrossBreak
                              # savedState.mSplitRightFloatAcrossBreak]
  /\ UNCHANGED << savedState, statics >>

Translate(aLineLeft, aBlockStart) ==
  /\ mLineLeft + aLineLeft \in Origins
  /\ mBlockStart + aBlockStart \in Origins
  /\ Become(TranslateOf(This, aLineLeft, aBlockStart))
  /\ last' = [op |-> "Translate"]
  /\ UNCHANGED << savedState, pushed, statics >>

SetBreakFlag(aFlag) ==
  /\ Become(SetBreakFlagOf(This, aFlag))
  /\ last' = [op |-> "SetBreakFlag"]
  /\ UNCHANGED << savedState, pushed, statics >>

IncludeInDamage(aIntervalBegin, aIntervalEnd) ==
  /\ Become(IncludeInDamageOf(This, aIntervalBegin, aIntervalEnd))
  /\ last' = [op |-> "IncludeInDamage"]
  /\ UNCHANGED << savedState, pushed, statics >>

\* The manager, the caller's state and the history of the push stay.
ManagerUnchanged ==
  UNCHANGED << mFloats, mLineLeft, mBlockStart, mPushedLeftFloatPastBreak,
               mPushedRightFloatPastBreak, mSplitLeftFloatAcrossBreak,
               mSplitRightFloatAcrossBreak, mFloatDamage, savedState, pushed >>

\* operator new: storage for one more manager.  malloc returns a block that
\* was never handed out.
CallOperatorNew(aFresh) ==
  /\ sCachedFloatManagerCount > 0 \/ heap[aFresh].state = "unused"
  /\ BecomeAllocator(OperatorNew(Allocator, aFresh).alloc)
  /\ last' = [op |-> "operator new",
              result |-> OperatorNew(Allocator, aFresh).result]
  /\ ManagerUnchanged

\* operator delete of a manager that lives in aPtr, or of the null pointer.
CallOperatorDelete(aPtr) ==
  /\ aPtr # nullptr => heap[aPtr].state = "inuse"
  /\ BecomeAllocator(OperatorDelete(Allocator, aPtr))
  /\ last' = [op |-> "operator delete", aPtr |-> aPtr]
  /\ ManagerUnchanged

CallShutdown ==
  /\ BecomeAllocator(Shutdown(Allocator))
  /\ last' = [op |-> "Shutdown"]
  /\ ManagerUnchanged

Unchanged ==
  UNCHANGED << mFloats, mLineLeft, mBlockStart, mPushedLeftFloatPastBreak,
               mPushedRightFloatPastBreak, mSplitLeftFloatAcrossBreak,
               mSplitRightFloatAcrossBreak, mFloatDamage, statics,
               savedState, pushed >>

\* The queries are const: a query made right after another one reaches no
\* state that the same query made first does not reach.
IsQuery(aCall) == aCall.op \in {"ClearFloats", "GetLowestFloatTop", "GetFlowArea", "FloatEdges", "ShapeEdges", "CalculateRegionFor", "PolygonEdges", "PolygonShapeInfo"}

CallClearFloats(aBCoord, aBreakType, aFlags) ==
  /\ ~IsQuery(last)
  /\ last' = [op |-> "ClearFloats", aBCoord |-> aBCoord,
              aBreakType |-> aBreakType, aFlags |-> aFlags,
              result |-> ClearFloats(This, aBCoord, aBreakType, aFlags)]
  /\ Unchanged

CallGetLowestFloatTop ==
  /\ ~IsQuery(last)
  /\ last' = [op |-> "GetLowestFloatTop", result |-> GetLowestFloatTop(This)]
  /\ Unchanged

CallGetFlowArea(aWM, aBCoord, aBSize, aBandInfoType, aShapeType, aContentArea, aContainerSize) ==
  /\ ~IsQuery(last)
  /\ last' = [op |-> "GetFlowArea", aWM |-> aWM, aBCoord |-> aBCoord,
              aBSize |-> aBSize, aBandInfoType |-> aBandInfoType,
              aShapeType |-> aShapeType, aContentArea |-> aContentArea,
              aContainerSize |-> aContainerSize,
              result |-> GetFlowArea(This, aWM, aBCoord, aBSize, aBandInfoType,
                                     aShapeType, aContentArea, NoState,
                                     aContainerSize)]
  /\ Unchanged

\* GetFlowArea given the caller's saved state.
CallGetFlowAreaIn(aWM, aBCoord, aBSize, aBandInfoType, aShapeType, aContentArea, aContainerSize) ==
  /\ ~IsQuery(last)
  /\ savedState # NoState
  /\ savedState.mFloatInfoCount <= Len(mFloats)
  /\ last' = [op |-> "GetFlowArea", aWM |-> aWM, aBCoord |-> aBCoord,
              aBSize |-> aBSize, aBandInfoType |-> aBandInfoType,
              aShapeType |-> aShapeType, aContentArea |-> aContentArea,
              aContainerSize |-> aContainerSize, aState |-> savedState,
              result |-> GetFlowArea(This, aWM, aBCoord, aBSize, aBandInfoType,
                                     aShapeType, aContentArea, savedState,
                                     aContainerSize)]
  /\ Unchanged

\* The static CalculateRegionFor.
CallCalculateRegionFor(aWM, aFloat, aFrameRect, aMargin, aContainerSize) ==
  /\ ~IsQuery(last)
  /\ last' = [op |-> "CalculateRegionFor", aWM |-> aWM, aFloat |-> aFloat,
              aFrameRect |-> aFrameRect, aMargin |-> aMargin,
              aContainerSize |-> aContainerSize,
              result |-> CalculateRegionFor(aWM, aFloat, aFrameRect, aMargin,
                                            aContainerSize)]
  /\ UNCHANGED << mFloats, mLineLeft, mBlockStart, mPushedLeftFloatPastBreak,
                  mPushedRightFloatPastBreak, mSplitLeftFloatAcrossBreak,
                  mSplitRightFloatAcrossBreak, mFloatDamage, statics,
                  savedState, pushed >>

\* The constructor of PolygonShapeInfo.
ConstructPolygon(aVertices) ==
  /\ ~IsQuery(last)
  /\ last' = [op |-> "PolygonShapeInfo", shape |-> PolygonShapeInfo(aVertices)]
  /\ Unchanged

\* PolygonShapeInfo::LineLeft and LineRight of the polygon with the given
\* vertices, for the band [aBStart, aBEnd].
CallPolygonEdges(aVertices, aBStart, aBEnd) ==
  /\ ~IsQuery(last)
  /\ aBStart <= aBEnd
  /\ LET shape == PolygonShapeInfo(aVertices)
     IN /\ ~ShapeIsEmpty(shape)
        /\ last' = [op |-> "PolygonEdges", shape |-> shape,
                    aBStart |-> aBStart, aBEnd |-> aBEnd,
                    lineLeft |-> PolygonLineLeft(shape, aBStart, aBEnd),
                    lineRight |-> PolygonLineRight(shape, aBStart, aBEnd)]
  /\ Unchanged

\* The accessors FloatInfo::LineLeft, LineRight, BStart, BEnd and IsEmpty
\* with a shape type, read for the float added last as GetFlowArea reads
\* them for a band.
CallFloatEdges(aShapeType, aBStart, aBEnd) ==
  /\ ~IsQuery(last)
  /\ mFloats # << >>
  /\ aBStart <= aBEnd
  /\ LET fi == mFloats[Len(mFloats)]
     IN last' = [op |-> "FloatEdges", aShapeType |-> aShapeType,
                 aBStart |-> aBStart, aBEnd |-> aBEnd,
                 lineLeft |-> FloatLineLeft(fi, aShapeType, aBStart, aBEnd),
                 lineRight |-> FloatLineRight(fi, aShapeType, aBStart, aBEnd),
                 bStart |-> FloatBStart(fi, aShapeType),
                 bEnd |-> FloatBEnd(fi, aShapeType),
                 isEmpty |-> FloatIsEmpty(fi, aShapeType)]
  /\ Unchanged

\* ShapeInfo::LineLeft and LineRight of the shape of the float added last.
CallShapeEdges(aBStart, aBEnd) ==
  /\ ~IsQuery(last)
  /\ mFloats # << >>
  /\ HasShape(mFloats[Len(mFloats)].mShapeInfo)
  /\ ~ShapeIsEmpty(mFloats[Len(mFloats)].mShapeInfo)
  /\ aBStart <= aBEnd
  /\ LET shape == mFloats[Len(mFloats)].mShapeInfo
     IN last' = [op |-> "ShapeEdges",
                 aBStart |-> aBStart, aBEnd |-> aBEnd,
                 lineLeft |-> ShapeLineLeft(shape, aBStart, aBEnd),
                 lineRight |-> ShapeLineRight(shape, aBStart, aBEnd)]
  /\ Unchanged

(***************************************************************************)
(* Spec: the registry -- floats are added under a moving origin, removed   *)
(* from the tail, and the state is pushed and popped.                      *)
(***************************************************************************)
Next ==
  \/ \E f \in FloatInputs, cs \in ContainerSizes :
       AddFloat(f.frame, f.rect, f.wm, cs)
  \/ \E l \in FrameLists : RemoveTrailingRegions(l)
  \/ PushState
  \/ PopState
  \/ \E t \in Translations : Translate(t[1], t[2])

Spec == Init /\ [][Next]_vars

(***************************************************************************)
(* SpecState: push and pop with the break flags changing in between.       *)
(***************************************************************************)
NextState ==
  \/ \E f \in StateInputs, cs \in ContainerSizes :
       AddFloat(f.frame, f.rect, f.wm, cs)
  \/ \E l \in StateFrameLists : RemoveTrailingRegions(l)
  \/ PushState
  \/ PopState
  \/ \E t \in Translations : Translate(t[1], t[2])
  \/ \E b \in BreakFlags : SetBreakFlag(b)

SpecState == Init /\ [][NextState]_vars

(***************************************************************************)
(* SpecClear: clearance and the lowest float top under the break flags.    *)
(***************************************************************************)
NextClear ==
  \/ \E f \in ClearInputs, cs \in ContainerSizes :
       AddFloat(f.frame, f.rect, f.wm, cs)
  \/ \E t \in Translations : Translate(t[1], t[2])
  \/ \E b \in BreakFlags : SetBreakFlag(b)
  \/ \E c \in BCoords, t \in StyleClears, fl \in ClearFlagSets :
       CallClearFloats(c, t, fl)
  \/ CallGetLowestFloatTop

SpecClear == Init /\ [][NextClear]_vars

(***************************************************************************)
(* SpecFlow: floats are added under a moving origin and the flow area is   *)
(* queried.                                                                *)
(***************************************************************************)
NextFlow ==
  \/ \E f \in FloatInputs, cs \in ContainerSizes :
       AddFloat(f.frame, f.rect, f.wm, cs)
  \/ \E t \in Translations : Translate(t[1], t[2])
  \/ \E c \in BCoords, sz \in BSizes, bt \in BandInfoTypes,
        st \in ShapeTypes, ca \in ContentAreas, cs \in ContainerSizes :
       CallGetFlowArea(ca.wm, c, sz, bt, st, ca.area, cs)

SpecFlow == Init /\ [][NextFlow]_vars

(***************************************************************************)
(* Properties                                                              *)
(***************************************************************************)
\* The greatest margin-rect block-end of the floats of a side among the first
\* i entries, nscoord_MIN when there is none.
RECURSIVE SideBEnd(_, _, _)
SideBEnd(aFloats, i, aSide) ==
  IF i = 0 THEN nscoord_MIN
  ELSE IF PhysicalFloats(aFloats[i].mFrame) = aSide
  THEN Max(RectBEnd(aFloats[i]), SideBEnd(aFloats, i - 1, aSide))
  ELSE SideBEnd(aFloats, i - 1, aSide)

\* C1: after any sequence of AddFloat, RemoveTrailingRegions and PopState the
\* left and right cumulative block-ends never decrease along the list, and at
\* every index each equals the greatest margin-rect block-end of the floats
\* of that side at or before the index, or the minimum sentinel if none.
C1_CumulativeSummaries ==
  \A i \in 1..Len(mFloats) :
    /\ mFloats[i].mLeftBEnd = SideBEnd(mFloats, i, "Left")
    /\ mFloats[i].mRightBEnd = SideBEnd(mFloats, i, "Right")
    /\ i > 1 => /\ mFloats[i].mLeftBEnd >= mFloats[i - 1].mLeftBEnd
                /\ mFloats[i].mRightBEnd >= mFloats[i - 1].mRightBEnd

\* Two left floats, the second ending above the first: its summary is the
\* first's block-end, and the right summary is still the sentinel.
C1_Witness ==
  /\ Len(mFloats) = 2
  /\ PhysicalFloats(mFloats[2].mFrame) = "Left"
  /\ RectBEnd(mFloats[2]) < mFloats[2].mLeftBEnd
  /\ mFloats[2].mRightBEnd = nscoord_MIN

\* C2: right after PopState with the state a PushState filled in, the origin,
\* the four break flags and the number of floats are what they were at the
\* PushState.
C2_PopRestoresState ==
  last.op = "PopState" =>
    /\ mLineLeft = pushed.mgr.mLineLeft
    /\ mBlockStart = pushed.mgr.mBlockStart
    /\ mPushedLeftFloatPastBreak = pushed.mgr.mPushedLeftFloatPastBreak
    /\ mPushedRightFloatPastBreak = pushed.mgr.mPushedRightFloatPastBreak
    /\ mSplitLeftFloatAcrossBreak = pushed.mgr.mSplitLeftFloatAcrossBreak
    /\ mSplitRightFloatAcrossBreak = pushed.mgr.mSplitRightFloatAcrossBreak
    /\ Len(mFloats) = pushed.count

\* A pop that undid an added float, a moved origin and a set flag.
C2_Witness ==
  last.op = "PopState" /\ last.undone

\* C3: when only AddFloat, Translate and the flag setters ran between the
\* PushState and the PopState, the float list after the pop is the list at the
\* push, and GetFlowArea, ClearFloats and GetLowestFloatTop answer every query
\* as the manager at the push would.
C3_PopRestoresQueries ==
  last.op = "PopState" /\ last.onlyAdds =>
    /\ mFloats = pushed.mgr.mFloats
    /\ GetLowestFloatTop(This) = GetLowestFloatTop(pushed.mgr)
    /\ \A c \in BCoords, t \in StyleClears, fl \in ClearFlagSets :
         ClearFloats(This, c, t, fl) = ClearFloats(pushed.mgr, c, t, fl)
    /\ \A c \in BCoords, sz \in BSizes, bt \in BandInfoTypes,
          st \in ShapeTypes, ca \in ContentAreas, cs \in ContainerSizes :
         GetFlowArea(This, ca.wm, c, sz, bt, st, ca.area, NoState, cs)
           = GetFlowArea(pushed.mgr, ca.wm, c, sz, bt, st, ca.area, NoState,
                         cs)

\* One float, a push, another float with the origin moved and a flag set,
\* and the pop.
C3_Witness ==
  /\ last.op = "PopState"
  /\ last.onlyAdds
  /\ last.undone
  /\ Len(mFloats) = 1

\* The band of the last GetFlowArea call in the manager's coordinates, and
\* the content area it was given.
FlowBlockStart == last.aBCoord + mBlockStart
FlowSaturates ==
  last.aBSize # nscoord_MAX /\ FlowBlockStart + last.aBSize >= nscoord_MAX
FlowBlockEnd ==
  IF last.aBSize = nscoord_MAX \/ FlowSaturates THEN nscoord_MAX
  ELSE FlowBlockStart + last.aBSize
ContentLineLeft ==
  mLineLeft
    + LogicalRectLineLeft(last.aContentArea, last.aWM, last.aContainerSize)
ContentLineRight ==
  mLineLeft
    + LogicalRectLineRight(last.aContentArea, last.aWM, last.aContainerSize)
FlowLineLeft(aRect) ==
  mLineLeft + LogicalRectLineLeft(aRect, last.aWM, last.aContainerSize)
FlowLineRight(aRect) ==
  mLineLeft + LogicalRectLineRight(aRect, last.aWM, last.aContainerSize)

\* C4 as the specification states it: the returned inline size and block
\* size are not negative and the returned inline start lies within the
\* content area's inline span.
C4_Original ==
  last.op = "GetFlowArea" =>
    /\ last.result.ISize >= 0
    /\ last.result.BSize >= 0
    /\ last.result.IStart >= last.aContentArea.IStart
    /\ last.result.IStart
         <= last.aContentArea.IStart + last.aContentArea.ISize

\* C4: the returned block size is not negative and the returned band lies
\* within the content area's inline span: its inline start is not before the
\* content area's and its inline end is not after the content area's.  The
\* inline size itself can be negative.
C4_BandWithinContentArea ==
  last.op = "GetFlowArea" =>
    /\ last.result.BSize >= 0
    /\ last.result.IStart >= last.aContentArea.IStart
    /\ last.result.IStart + last.result.ISize
         <= last.aContentArea.IStart + last.aContentArea.ISize

\* A query whose band a float crossed entirely: the inline size is negative.
C4_Witness ==
  last.op = "GetFlowArea" /\ last.result.ISize < 0

\* C5: the band a WidthWithinHeight query returns is at least as narrow on
\* both sides as the band a BandFromPoint query with the same start returns.
C5_WidthWithinHeightNarrower ==
  last.op = "GetFlowArea" /\ last.aBandInfoType = "WidthWithinHeight" =>
    \A sz \in BSizes :
      LET point == GetFlowArea(This, last.aWM, last.aBCoord, sz,
                               "BandFromPoint", last.aShapeType,
                               last.aContentArea, NoState,
                               last.aContainerSize)
      IN /\ FlowLineLeft(last.result) >= FlowLineLeft(point)
         /\ FlowLineRight(last.result) <= FlowLineRight(point)

\* A WidthWithinHeight band strictly narrower than the band from its start
\* point: a float starts inside the band.
C5_Witness ==
  /\ last.op = "GetFlowArea"
  /\ last.aBandInfoType = "WidthWithinHeight"
  /\ last.aBSize > 0
  /\ LET point == GetFlowArea(This, last.aWM, last.aBCoord, last.aBSize,
                              "BandFromPoint", last.aShapeType,
                              last.aContentArea, NoState, last.aContainerSize)
     IN last.result.ISize < point.ISize

\* The registry has no float, or both summaries of its last float are at or
\* above the start of the band.
FlowBelowAllFloats ==
  \/ Len(mFloats) = 0
  \/ /\ mFloats[Len(mFloats)].mLeftBEnd <= FlowBlockStart
     /\ mFloats[Len(mFloats)].mRightBEnd <= FlowBlockStart

\* C6: with no float, or with the band starting at or below both summaries
\* of the last float, GetFlowArea returns the content area's inline start and
\* inline size, the block start and block size it was given, and no floats.
C6_FastPath ==
  last.op = "GetFlowArea" /\ FlowBelowAllFloats =>
    last.result = [IStart |-> last.aContentArea.IStart,
                   BStart |-> last.aBCoord,
                   ISize |-> last.aContentArea.ISize,
                   BSize |-> last.aBSize,
                   mHasFloats |-> FALSE]

\* A query below the floats of a registry that has some, under a moved
\* origin, in a right-to-left writing mode.
C6_Witness ==
  /\ last.op = "GetFlowArea"
  /\ Len(mFloats) > 0
  /\ FlowBelowAllFloats
  /\ mBlockStart > 0
  /\ last.aWM = "rtl"

\* The floats a query of the last call's shape type takes into account, and
\* whether one crosses an end of the band [b0, b1] or lies inside it.
FlowFloats ==
  { i \in 1..Len(mFloats) : ~FloatIsEmpty(mFloats[i], last.aShapeType) }
UniformOver(fi, b0, b1) ==
  \/ /\ FloatBStart(fi, last.aShapeType) <= b0
     /\ FloatBEnd(fi, last.aShapeType) >= b1
  \/ FloatBEnd(fi, last.aShapeType) <= b0
  \/ FloatBStart(fi, last.aShapeType) >= b1
ReturnedBlockEnd ==
  IF last.result.BSize = nscoord_MAX THEN nscoord_MAX
  ELSE FlowBlockStart + last.result.BSize

\* C7 as the specification states it: the band a BandFromPoint query returns
\* is uniform, never higher than requested, and not empty when the requested
\* block size is positive.
C7_Original ==
  last.op = "GetFlowArea" /\ last.aBandInfoType = "BandFromPoint" =>
    /\ \A i \in FlowFloats :
         UniformOver(mFloats[i], FlowBlockStart, ReturnedBlockEnd)
    /\ last.result.BSize <= last.aBSize
    /\ last.aBSize > 0 => last.result.BSize > 0

\* C7: in the band [B0, B0 + h] a BandFromPoint query returns, every float
\* that is not empty spans the whole band or does not meet its interior;
\* h is positive when the requested block size is; and h is not larger than
\* the requested block size unless B0 plus the requested size reaches
\* nscoord_MAX, where the band's end saturates.
C7_BandFromPointUniform ==
  last.op = "GetFlowArea" /\ last.aBandInfoType = "BandFromPoint" =>
    /\ \A i \in FlowFloats :
         UniformOver(mFloats[i], FlowBlockStart, ReturnedBlockEnd)
    /\ ~FlowSaturates => last.result.BSize <= last.aBSize
    /\ last.aBSize > 0 => last.result.BSize > 0

\* A band cut short at the end of a float that narrows it.
C7_Witness ==
  /\ last.op = "GetFlowArea"
  /\ last.aBandInfoType = "BandFromPoint"
  /\ last.result.BSize > 0
  /\ last.result.BSize < last.aBSize
  /\ last.result.mHasFloats
  /\ \E i \in FlowFloats :
       FloatBEnd(mFloats[i], last.aShapeType) = ReturnedBlockEnd

\* The edges of the floats of a side whose margin rects are not empty and
\* meet the band [B0, B1].
MarginFloatsInBand(aSide) ==
  { i \in 1..Len(mFloats) :
      /\ PhysicalFloats(mFloats[i].mFrame) = aSide
      /\ ~RectEmpty(mFloats[i])
      /\ RectBStart(mFloats[i]) < FlowBlockEnd
      /\ RectBEnd(mFloats[i]) > FlowBlockStart }
SetMax(S) == CHOOSE x \in S : \A y \in S : y <= x
SetMin(S) == CHOOSE x \in S : \A y \in S : x <= y
MarginBandEdges ==
  /\ FlowLineLeft(last.result)
       = SetMax({ContentLineLeft}
                \cup { RectLineRight(mFloats[i]) :
                         i \in MarginFloatsInBand("Left") })
  /\ FlowLineRight(last.result)
       = SetMin({ContentLineRight}
                \cup { RectLineLeft(mFloats[i]) :
                         i \in MarginFloatsInBand("Right") })

\* C8 as the specification states it: a WidthWithinHeight Margin query over
\* a band of positive height returns the requested block size, and the edges
\* below.
C8_Original ==
  /\ last.op = "GetFlowArea"
  /\ last.aBandInfoType = "WidthWithinHeight"
  /\ last.aShapeType = "Margin"
  /\ last.aBSize > 0
  => /\ last.result.BSize = last.aBSize
     /\ MarginBandEdges

\* C8: a WidthWithinHeight Margin query over a band [B0, B1] of positive
\* height returns as line-left edge the greatest of the content area's
\* line-left edge and the line-right edges of the left floats whose margin
\* rects are not empty and meet the band, and as line-right edge the least
\* of the content area's line-right edge and the line-left edges of such
\* right floats.  The block size is the requested one, except that when B0
\* plus the requested size reaches nscoord_MAX and a float ends below B0 it
\* is nscoord_MAX.
C8_WidthWithinHeightMargin ==
  /\ last.op = "GetFlowArea"
  /\ last.aBandInfoType = "WidthWithinHeight"
  /\ last.aShapeType = "Margin"
  /\ last.aBSize > 0
  => /\ last.result.BSize
          = IF FlowSaturates /\ ~FlowBelowAllFloats THEN nscoord_MAX
            ELSE last.aBSize
     /\ MarginBandEdges

\* A band narrowed from both sides by floats that meet it.
C8_Witness ==
  /\ last.op = "GetFlowArea"
  /\ last.aBandInfoType = "WidthWithinHeight"
  /\ last.aShapeType = "Margin"
  /\ last.aBSize > 0
  /\ FlowLineLeft(last.result) > ContentLineLeft
  /\ FlowLineRight(last.result) < ContentLineRight

\* Float fi is not empty, meets the block extent of the band asked for, and
\* its edge reaches past the content area's edge on its side.
Intrudes(fi) ==
  LET bandBlockEnd == IF last.aBandInfoType = "BandFromPoint"
                      THEN FlowBlockStart ELSE FlowBlockEnd
  IN /\ ~FloatIsEmpty(fi, last.aShapeType)
     /\ FloatBEnd(fi, last.aShapeType) > FlowBlockStart
     /\ FloatBStart(fi, last.aShapeType) <= FlowBlockEnd
     /\ IF PhysicalFloats(fi.mFrame) = "Left"
        THEN FloatLineRight(fi, last.aShapeType, FlowBlockStart, bandBlockEnd)
               > ContentLineLeft
        ELSE FloatLineLeft(fi, last.aShapeType, FlowBlockStart, bandBlockEnd)
               < ContentLineRight

\* C9: GetFlowArea reports floats exactly when the band it returns is
\* strictly narrower than the content area on some side, and then some float
\* in scope that meets the band reaches into the content area; a float that
\* meets the band but stays outside the content area's inline span leaves
\* the report false.
C9_HasFloatsIffNarrower ==
  last.op = "GetFlowArea" =>
    /\ last.result.mHasFloats
         <=> \/ FlowLineLeft(last.result) > ContentLineLeft
             \/ FlowLineRight(last.result) < ContentLineRight
    /\ last.result.mHasFloats => \E i \in 1..Len(mFloats) : Intrudes(mFloats[i])

\* A float that is not empty lies across the start of the band, the early
\* return is not taken, and yet no floats are reported.
C9_Witness ==
  /\ last.op = "GetFlowArea"
  /\ ~last.result.mHasFloats
  /\ ~FlowBelowAllFloats
  /\ \E i \in FlowFloats :
       /\ FloatBStart(mFloats[i], last.aShapeType) <= FlowBlockStart
       /\ FloatBEnd(mFloats[i], last.aShapeType) > FlowBlockStart

ClearedSides(aBreakType) ==
  CASE aBreakType = "Both" -> {"Left", "Right"}
    [] aBreakType = "Left" -> {"Left"}
    [] aBreakType = "Right" -> {"Right"}
    [] OTHER -> {}

\* The summary of a side in the last entry of the list.
TailBEnd(aSide) ==
  IF aSide = "Left" THEN mFloats[Len(mFloats)].mLeftBEnd
  ELSE mFloats[Len(mFloats)].mRightBEnd

\* C11: when ClearFloats does not return nscoord_MAX its result r is
\* max(bCoord + mBlockStart, the tail's summaries of the sides cleared)
\* - mBlockStart; so r >= bCoord, r = bCoord when the registry is empty or the
\* break type names no side, and no float of a cleared side has a margin-rect
\* block-end greater than r + mBlockStart.
C11_ClearFloatsValue ==
  last.op = "ClearFloats" /\ last.result # nscoord_MAX =>
    LET r == last.result
        sides == ClearedSides(last.aBreakType)
    IN /\ r >= last.aBCoord
       /\ Len(mFloats) = 0 \/ sides = {} => r = last.aBCoord
       /\ Len(mFloats) > 0 =>
            r = SetMax({last.aBCoord + mBlockStart}
                       \cup { TailBEnd(sd) : sd \in sides }) - mBlockStart
       /\ \A i \in 1..Len(mFloats) :
            PhysicalFloats(mFloats[i].mFrame) \in sides
              => RectBEnd(mFloats[i]) <= r + mBlockStart

\* A clearance of both sides that moves below a right float which is not the
\* last entry and ends below the last left float.
C11_Witness ==
  /\ last.op = "ClearFloats"
  /\ last.aBreakType = "Both"
  /\ last.result > last.aBCoord
  /\ last.result # nscoord_MAX
  /\ Len(mFloats) = 2
  /\ mFloats[2].mRightBEnd > mFloats[2].mLeftBEnd
  /\ mFloats[2].mLeftBEnd > nscoord_MIN

\* C12: GetLowestFloatTop returns nscoord_MAX whenever a float of either side
\* was pushed past the break, whatever the registry holds and whatever the
\* split flags are; otherwise nscoord_MIN when the registry is empty;
\* otherwise the margin-rect block-start of the last entry minus mBlockStart.
C12_LowestFloatTop ==
  last.op = "GetLowestFloatTop" =>
    last.result
      = IF mPushedLeftFloatPastBreak \/ mPushedRightFloatPastBreak
        THEN nscoord_MAX
        ELSE IF Len(mFloats) = 0 THEN nscoord_MIN
        ELSE mFloats[Len(mFloats)].mRect.y - mBlockStart

\* The top of the last float is returned, under a moved origin, with both
\* split flags set and a last float that does not start lowest.
C12_Witness ==
  /\ last.op = "GetLowestFloatTop"
  /\ last.result \notin {nscoord_MAX, nscoord_MIN}
  /\ mSplitLeftFloatAcrossBreak /\ mSplitRightFloatAcrossBreak
  /\ mBlockStart > 0
  /\ Len(mFloats) = 2
  /\ mFloats[1].mRect.y > mFloats[2].mRect.y

NextSaved ==
  \/ \E f \in SavedInputs, cs \in ContainerSizes :
       AddFloat(f.frame, f.rect, f.wm, cs)
  \/ \E t \in Translations : Translate(t[1], t[2])
  \/ PushState
  \/ \E c \in BCoords, sz \in BSizes, bt \in BandInfoTypes,
        st \in ShapeTypes, ca \in ContentAreas, cs \in ContainerSizes :
       CallGetFlowAreaIn(ca.wm, c, sz, bt, st, ca.area, cs)

SpecSaved == Init /\ [][NextSaved]_vars

\* The manager with its list cut to the first aCount entries.
TruncatedTo(aCount) == [This EXCEPT !.mFloats = SubSeq(@, 1, aCount)]

\* C14: GetFlowArea given a saved state s returns what the same query without
\* a saved state returns on a manager whose list is cut to its first
\* s.mFloatInfoCount entries and whose origin is the current one: later
\* floats have no influence, and the origin and flags stored in s are not
\* used.
C14_SavedStateScopesFloats ==
  last.op = "GetFlowArea" =>
    last.result
      = GetFlowArea(TruncatedTo(last.aState.mFloatInfoCount), last.aWM,
                    last.aBCoord, last.aBSize, last.aBandInfoType,
                    last.aShapeType, last.aContentArea, NoState,
                    last.aContainerSize)

\* A query under a saved state taken at another origin, answered differently
\* from the query over all the floats.
C14_Witness ==
  /\ last.op = "GetFlowArea"
  /\ last.aState.mFloatInfoCount \in 1..(Len(mFloats) - 1)
  /\ last.aState.mBlockStart # mBlockStart
  /\ last.result
       # GetFlowArea(This, last.aWM, last.aBCoord, last.aBSize,
                     last.aBandInfoType, last.aShapeType, last.aContentArea,
                     NoState, last.aContainerSize)

\* A coordinate moved by aDelta; the sentinels stay.
Shifted(aCoord, aDelta) ==
  IF aCoord \in {nscoord_MAX, nscoord_MIN} THEN aCoord ELSE aCoord + aDelta

\* Shape aStored is shape aPlain moved by (aDx, aDy), as far as the shape
\* interface shows.
ShapeMovedBy(aStored, aPlain, aDx, aDy) ==
  /\ HasShape(aStored) = HasShape(aPlain)
  /\ HasShape(aStored) =>
       /\ ShapeIsEmpty(aStored) = ShapeIsEmpty(aPlain)
       /\ ~ShapeIsEmpty(aStored) =>
            /\ ShapeBStart(aStored) = ShapeBStart(aPlain) + aDy
            /\ ShapeBEnd(aStored) = ShapeBEnd(aPlain) + aDy
            /\ \A bs \in -1..4, be \in -1..4 :
                 bs <= be =>
                   /\ ShapeLineLeft(aStored, bs + aDy, be + aDy)
                        = Shifted(ShapeLineLeft(aPlain, bs, be), aDx)
                   /\ ShapeLineRight(aStored, bs + aDy, be + aDy)
                        = Shifted(ShapeLineRight(aPlain, bs, be), aDx)

\* The last AddFloat stored its float moved by the origin.
StoredAtOrigin ==
  LET fi == mFloats[Len(mFloats)]
      plain == FloatInfo(last.aFloatFrame, 0, 0, last.aMarginRect, last.aWM,
                         last.aContainerSize)
  IN /\ fi.mRect.x = LogicalRectLineLeft(last.aMarginRect, last.aWM,
                                         last.aContainerSize) + mLineLeft
     /\ fi.mRect.y = last.aMarginRect.BStart + mBlockStart
     /\ fi.mRect.width = last.aMarginRect.ISize
     /\ fi.mRect.height = last.aMarginRect.BSize
     /\ ShapeMovedBy(fi.mShapeInfo, plain.mShapeInfo, mLineLeft, mBlockStart)

\* The content area of the last query moved by aDx along the line, in the
\* writing mode of the query.
ContentAreaMovedBy(aDx) ==
  [last.aContentArea EXCEPT
     !.IStart = IF IsBidiLTR(last.aWM) THEN @ + aDx ELSE @ - aDx]

\* The last query repeated after the origin moved by (aDx, aDy), at
\* bCoord - aDy over the content area moved by -aDx, returns the last result
\* moved by (-aDx, -aDy).
QueryMovesWithOrigin(aDx, aDy) ==
  LET moved == GetFlowArea(TranslateOf(This, aDx, aDy), last.aWM,
                           last.aBCoord - aDy, last.aBSize,
                           last.aBandInfoType, last.aShapeType,
                           ContentAreaMovedBy(-aDx), NoState,
                           last.aContainerSize)
  IN /\ LogicalRectLineLeft(moved, last.aWM, last.aContainerSize)
          = LogicalRectLineLeft(last.result, last.aWM, last.aContainerSize)
              - aDx
     /\ moved.ISize = last.result.ISize
     /\ moved.BStart = last.result.BStart - aDy
     /\ moved.BSize = last.result.BSize
     /\ moved.mHasFloats = last.result.mHasFloats

OriginMoves == { << 1, 1 >>, << -1, -1 >>, << 2, 0 >>, << 0, 3 >> }

\* C15: a float added while the origin is (x, y) is stored with its margin
\* rect and its shape moved by (x, y); a later Translate leaves every stored
\* entry, summaries included, as it is; and after the origin moved by
\* (dx, dy) a query at bCoord - dy over the content area moved by -dx along
\* the line returns the earlier result moved by (-dx, -dy).
C15_OriginShiftsQueriesOnly ==
  /\ [](last.op = "AddFloat" => StoredAtOrigin)
  /\ [](last.op = "GetFlowArea" =>
          \A t \in OriginMoves : QueryMovesWithOrigin(t[1], t[2]))
  /\ [][last'.op = "Translate" => mFloats' = mFloats]_vars

\* A query under origin (1, 1) narrowed by a float with a shape that was
\* added under origin (0, 0).
C15_Witness ==
  /\ last.op = "GetFlowArea"
  /\ last.aShapeType = "ShapeOutside"
  /\ last.result.mHasFloats
  /\ mBlockStart = 1
  /\ Len(mFloats) = 1
  /\ mFloats[1].mRect.y = 0
  /\ HasShape(mFloats[1].mShapeInfo)

(***************************************************************************)
(* The edges of floats and of shapes.                                      *)
(***************************************************************************)
NextShape ==
  \/ \E f \in ShapeInputs, cs \in ContainerSizes :
       AddFloat(f.frame, f.rect, f.wm, cs)
  \/ \E t \in Translations : Translate(t[1], t[2])
  \/ \E st \in ShapeTypes, bs \in BandCoords, be \in BandCoords :
       CallFloatEdges(st, bs, be)
  \/ \E bs \in BandCoords, be \in BandCoords : CallShapeEdges(bs, be)

SpecShape == Init /\ [][NextShape]_vars

\* The float whose edges were read last.
EdgeFloat == mFloats[Len(mFloats)]

\* C16: under ShapeOutside the edges of a float with a shape are capped by
\* its margin rect on all four sides, for every band; a float without a shape
\* answers with the values of its margin rect.
C16_ShapeEdgesWithinMarginRect ==
  (last.op = "FloatEdges" /\ last.aShapeType = "ShapeOutside") =>
    IF HasShape(EdgeFloat.mShapeInfo)
    THEN /\ last.lineLeft >= RectLineLeft(EdgeFloat)
         /\ last.lineRight <= RectLineRight(EdgeFloat)
         /\ last.bStart >= RectBStart(EdgeFloat)
         /\ last.bEnd <= RectBEnd(EdgeFloat)
    ELSE /\ last.lineLeft = RectLineLeft(EdgeFloat)
         /\ last.lineRight = RectLineRight(EdgeFloat)
         /\ last.bStart = RectBStart(EdgeFloat)
         /\ last.bEnd = RectBEnd(EdgeFloat)
         /\ last.isEmpty = RectEmpty(EdgeFloat)

\* The edges of a float whose shape reaches further line-left than its
\* margin rect within the band.
C16_Witness ==
  /\ last.op = "FloatEdges"
  /\ last.aShapeType = "ShapeOutside"
  /\ HasShape(EdgeFloat.mShapeInfo)
  /\ ~ShapeIsEmpty(EdgeFloat.mShapeInfo)
  /\ ShapeLineLeft(EdgeFloat.mShapeInfo, last.aBStart, last.aBEnd)
       < RectLineLeft(EdgeFloat)
  /\ last.lineLeft = RectLineLeft(EdgeFloat)

\* The shape whose edges were read last, and the bands that overlap its
\* block extent.
EdgeShape == EdgeFloat.mShapeInfo
BandOverlapsExtent ==
  last.aBStart <= ShapeBEnd(EdgeShape) /\ last.aBEnd >= ShapeBStart(EdgeShape)

\* The band has a height and shares more than a point with the extent.
BandCrossesExtent ==
  /\ last.aBStart < last.aBEnd
  /\ last.aBStart < ShapeBEnd(EdgeShape)
  /\ last.aBEnd > ShapeBStart(EdgeShape)

\* The band meets a row of the image that has a pixel above the threshold.
BandMeetsInterval ==
  \E i \in 1..Len(EdgeShape.mIntervals) :
    /\ EdgeShape.mIntervals[i].y <= last.aBEnd
    /\ last.aBStart < YMost(EdgeShape.mIntervals[i])

\* C17 as stated: for every non-empty shape and every band with bs <= be that
\* overlaps the block extent of the shape, LineLeft <= LineRight.
C17_Original ==
  (last.op = "ShapeEdges" /\ BandOverlapsExtent) =>
    last.lineLeft <= last.lineRight

\* C17: LineLeft <= LineRight holds for a rounded box and an ellipse on every
\* band that overlaps the block extent; for a polygon on every band of
\* positive height that shares more than a point with the extent; for an
\* image on every band that meets a row with a pixel above the threshold.
C17_LineLeftNotBeyondLineRight ==
  last.op = "ShapeEdges" =>
    /\ (EdgeShape.type \in {"roundedbox", "ellipse"} /\ BandOverlapsExtent)
         => last.lineLeft <= last.lineRight
    /\ (EdgeShape.type = "polygon" /\ BandCrossesExtent)
         => last.lineLeft <= last.lineRight
    /\ (EdgeShape.type = "image" /\ BandMeetsInterval)
         => last.lineLeft <= last.lineRight

\* A band of positive height crossing a polygon whose line-left edge in the
\* band is left of its line-right edge.
C17_Witness ==
  /\ last.op = "ShapeEdges"
  /\ EdgeShape.type = "polygon"
  /\ BandCrossesExtent
  /\ last.lineLeft < last.lineRight
  /\ last.lineRight < nscoord_MAX

(***************************************************************************)
(* Queries around floats whose polygon encloses no area.                   *)
(***************************************************************************)
NextEmptyShape ==
  \/ \E f \in EmptyShapeInputs, cs \in ContainerSizes :
       AddFloat(f.frame, f.rect, f.wm, cs)
  \/ \E t \in Translations : Translate(t[1], t[2])
  \/ \E c \in BCoords, sz \in BSizes, bt \in BandInfoTypes,
        st \in ShapeTypes, ca \in ContentAreas, cs \in ContainerSizes :
       CallGetFlowArea(ca.wm, c, sz, bt, st, ca.area, cs)

SpecEmptyShape == Init /\ [][NextEmptyShape]_vars

HasEmptyShape(fi) == HasShape(fi.mShapeInfo) /\ ShapeIsEmpty(fi.mShapeInfo)
KeepsArea(fi) == ~HasEmptyShape(fi)
WithoutShape(fi) == [fi EXCEPT !.mShapeInfo = NoShape]

\* The list aFloats with the summaries AddFloat gives when the entries are
\* added in this order.
RECURSIVE Resummed(_)
Resummed(aFloats) ==
  IF aFloats = << >> THEN << >>
  ELSE LET head == Resummed(SubSeq(aFloats, 1, Len(aFloats) - 1))
           fi == aFloats[Len(aFloats)]
           tailLeftBEnd == IF head = << >> THEN nscoord_MIN
                           ELSE head[Len(head)].mLeftBEnd
           tailRightBEnd == IF head = << >> THEN nscoord_MIN
                            ELSE head[Len(head)].mRightBEnd
           isLeft == PhysicalFloats(fi.mFrame) = "Left"
       IN Append(head,
                 [fi EXCEPT !.mLeftBEnd = IF isLeft
                                          THEN Max(tailLeftBEnd, RectBEnd(fi))
                                          ELSE tailLeftBEnd,
                            !.mRightBEnd = IF ~isLeft
                                           THEN Max(tailRightBEnd, RectBEnd(fi))
                                           ELSE tailRightBEnd])

\* The last query asked of the manager holding aFloats.
SameQueryOver(aFloats) ==
  GetFlowArea([This EXCEPT !.mFloats = aFloats], last.aWM, last.aBCoord,
              last.aBSize, last.aBandInfoType, last.aShapeType,
              last.aContentArea, NoState, last.aContainerSize)

\* The same query as if the floats whose shape encloses no area had never
\* been added, and as if no float had a shape.
QueryWithoutEmptyShapes == SameQueryOver(Resummed(SelectSeq(mFloats, KeepsArea)))
QueryWithoutShapes ==
  SameQueryOver([i \in 1..Len(mFloats) |-> WithoutShape(mFloats[i])])

\* The polygons of fewer than three or of collinear vertices are empty.
ThinPolygonsAreEmpty ==
  \A i \in 1..Len(mFloats) :
    mFloats[i].mFrame \in {"fC", "fT"} =>
      /\ mFloats[i].mShapeInfo.type = "polygon"
      /\ ShapeIsEmpty(mFloats[i].mShapeInfo)

NextAlloc ==
  \/ \E b \in Blocks : CallOperatorNew(b)
  \/ \E p \in Blocks \cup {nullptr} : CallOperatorDelete(p)
  \/ CallShutdown

SpecAlloc == Init /\ [][NextAlloc]_vars

\* The blocks the cache holds: the entries below the count.
CachedBlocks ==
  { sCachedFloatManagers[i] :
      i \in { j \in 0..(NS_FLOAT_MANAGER_CACHE_SIZE - 1) :
                j < sCachedFloatManagerCount } }

\* C19: once Shutdown has run the statics of the cache never change again,
\* so no block is placed in it; operator delete frees the block it is given;
\* operator new returns a block malloc never handed out before, not one of
\* the cache; every block the cache held when Shutdown ran has been freed
\* exactly once, and no block is freed twice; and a further Shutdown changes
\* nothing.
C19_ShutdownDisablesCache ==
  /\ [][isShutDown =>
          /\ sCachedFloatManagerCount' = sCachedFloatManagerCount
          /\ sCachedFloatManagers' = sCachedFloatManagers
          /\ (last'.op = "operator delete" /\ last'.aPtr # nullptr) =>
               /\ heap'[last'.aPtr].state = "freed"
               /\ heap'[last'.aPtr].frees = 1
          /\ last'.op = "operator new" =>
               /\ heap[last'.result].state = "unused"
               /\ heap'[last'.result].state = "inuse"
          /\ last'.op = "Shutdown" => UNCHANGED statics]_vars
  /\ [](isShutDown =>
          /\ CachedBlocks = {}
          /\ \A b \in Blocks : heap[b].atShutdown => heap[b].frees = 1)
  /\ [](\A b \in Blocks : heap[b].frees <= 1)

\* After a Shutdown that found a block in the cache, a manager allocated
\* afterwards has been deleted.
C19_Witness ==
  /\ isShutDown
  /\ last.op = "operator delete"
  /\ last.aPtr # nullptr
  /\ heap[last.aPtr].state = "freed"
  /\ ~heap[last.aPtr].atShutdown
  /\ \E b \in Blocks : heap[b].atShutdown /\ heap[b].frees = 1

(***************************************************************************)
(* The damage sink across push and pop.                                    *)
(***************************************************************************)
DamageIntervals == { << 0, 1 >>, << 1, 3 >> }

NextDamage ==
  \/ \E f \in StateInputs, cs \in ContainerSizes :
       AddFloat(f.frame, f.rect, f.wm, cs)
  \/ \E t \in Translations : Translate(t[1], t[2])
  \/ \E d \in DamageIntervals : IncludeInDamage(d[1], d[2])
  \/ PushState
  \/ PopState

SpecDamage == Init /\ [][NextDamage]_vars

\* C20: PushState and PopState leave the damage as it is, so what was added
\* between the push and the pop is there after the pop; the state PushState
\* fills in does not depend on the damage, and PopState's other results do
\* not either.
C20_PushPopLeaveDamage ==
  /\ [][last'.op \in {"PushState", "PopState"} =>
          mFloatDamage' = mFloatDamage]_vars
  /\ [](\A d \in SUBSET { << 0, 1 >>, << 2, 4 >> } :
          /\ PushStateOf([This EXCEPT !.mFloatDamage = d]) = PushStateOf(This)
          /\ (savedState # NoState
                /\ savedState.mFloatInfoCount <= Len(mFloats)) =>
               [PopStateOf([This EXCEPT !.mFloatDamage = d], savedState)
                  EXCEPT !.mFloatDamage = mFloatDamage]
                 = PopStateOf(This, savedState))
  /\ [](last.op = "PopState" => pushed.mgr.mFloatDamage \subseteq mFloatDamage)

\* A pop that took back a float and an origin and left damage added since
\* the push.
C20_Witness ==
  /\ last.op = "PopState"
  /\ pushed.mgr.mFloatDamage # mFloatDamage
  /\ pushed.mgr.mFloatDamage # {}
  /\ Len(pushed.mgr.mFloats) = Len(mFloats)
  /\ mBlockStart = pushed.mgr.mBlockStart

(***************************************************************************)
(* The region of a float, computed for frames of both sides.               *)
(***************************************************************************)
NextRegion ==
  \E wm \in WritingModes, f \in {"fL", "fR"}, r \in RegionRects,
     mg \in RegionMargins, cs \in ContainerSizes :
    CallCalculateRegionFor(wm, f, r, mg, cs)

SpecRegion == Init /\ [][NextRegion]_vars

\* The physical margin edges of the frame of the last CalculateRegionFor
\* call, and its margin-box sizes.
PhysicalMargin(aSide) ==
  IF (aSide = "Left") = IsBidiLTR(last.aWM) THEN last.aMargin.IStart
  ELSE last.aMargin.IEnd
LeftMarginEdge == last.aFrameRect.x - PhysicalMargin("Left")
RightMarginEdge == XMost(last.aFrameRect) + PhysicalMargin("Right")
MarginBoxISize == RightMarginEdge - LeftMarginEdge
MarginBoxBSize ==
  last.aFrameRect.height + last.aMargin.BStart + last.aMargin.BEnd
RegionLineLeft ==
  LogicalRectLineLeft(last.result, last.aWM, last.aContainerSize)
RegionLineRight ==
  LogicalRectLineRight(last.result, last.aWM, last.aContainerSize)

\* C21: the region CalculateRegionFor returns has sizes >= 0; it is the
\* margin box when the sizes of the margin box are not negative; a negative
\* inline size becomes 0 at the right margin edge for a left float and at the
\* left margin edge for a right float, in LTR and in RTL; a negative block
\* size becomes 0 and the block start stays.
C21_RegionNeverNegative ==
  last.op = "CalculateRegionFor" =>
    /\ last.result.ISize >= 0
    /\ last.result.BSize >= 0
    /\ last.result.BStart = last.aFrameRect.y - last.aMargin.BStart
    /\ MarginBoxISize >= 0 =>
         /\ RegionLineLeft = LeftMarginEdge
         /\ RegionLineRight = RightMarginEdge
    /\ MarginBoxBSize >= 0 => last.result.BSize = MarginBoxBSize
    /\ MarginBoxISize < 0 =>
         /\ last.result.ISize = 0
         /\ RegionLineLeft = IF PhysicalFloats(last.aFloat) = "Left"
                             THEN RightMarginEdge ELSE LeftMarginEdge
    /\ MarginBoxBSize < 0 => last.result.BSize = 0

\* The region of a left float in RTL whose margin box has a negative inline
\* size and a negative block size.
C21_Witness ==
  /\ last.op = "CalculateRegionFor"
  /\ last.aWM = "rtl"
  /\ PhysicalFloats(last.aFloat) = "Left"
  /\ MarginBoxISize < 0
  /\ MarginBoxBSize < 0
  /\ RegionLineLeft = RightMarginEdge
  /\ RightMarginEdge # LeftMarginEdge

(***************************************************************************)
(* Queries beside a triangle: the polygon float of 200 by 200.             *)
(***************************************************************************)
NextTriangle ==
  \/ AddFloat(TriangleInput.frame, TriangleInput.rect, TriangleInput.wm,
              TriangleContainerSize)
  \/ \E c \in TriangleBCoords, sz \in TriangleBSizes, bt \in BandInfoTypes,
        st \in ShapeTypes :
       CallGetFlowArea("ltr", c, sz, bt, st, TriangleContentArea,
                       TriangleContainerSize)

SpecTriangle == Init /\ [][NextTriangle]_vars

\* A ShapeOutside query made with the triangle in the list.
TriangleQuery ==
  /\ last.op = "GetFlowArea"
  /\ mFloats # << >>
  /\ last.aShapeType = "ShapeOutside"

\* The position of the hypotenuse from (200, 0) to (0, 200) at block
\* coordinate y.
HypotenuseAt(y) == 200 - y

\* C22 as stated: the query at bCoord 150 with bSize 10 returns
\* inlineStart 45, the hypotenuse at the middle of the band, and hasFloats.
C22_Original ==
  (TriangleQuery /\ last.aBCoord = 150 /\ last.aBSize = 10)
    => /\ last.result.IStart = HypotenuseAt(155)
       /\ last.result.mHasFloats

\* C22: beside the triangle a ShapeOutside query at bCoord 150 with bSize 10
\* returns inlineStart 50 and hasFloats in both band modes; for every band
\* that starts strictly inside the triangle's block extent the inline start
\* is the position of the hypotenuse at the band's block start, where the
\* triangle is widest within the band.
C22_PolygonEdgeAtBandStart ==
  /\ (TriangleQuery /\ last.aBCoord = 150 /\ last.aBSize = 10)
       => /\ last.result.IStart = 50
          /\ last.result.mHasFloats
  /\ (TriangleQuery /\ 0 < last.aBCoord /\ last.aBCoord < 200)
       => /\ last.result.IStart = HypotenuseAt(last.aBCoord)
          /\ last.result.ISize = 1000 - HypotenuseAt(last.aBCoord)
          /\ last.result.mHasFloats

C22_Witness ==
  /\ TriangleQuery
  /\ last.aBCoord = 150
  /\ last.aBSize = 10
  /\ last.aBandInfoType = "WidthWithinHeight"
  /\ last.result.IStart = 50

(***************************************************************************)
(* The band test at the ends of the band.                                  *)
(***************************************************************************)
\* The band whose width a query reads: [B0, B0] for BandFromPoint and
\* [B0, B1] for WidthWithinHeight.
WidthBandEnd ==
  IF last.aBandInfoType = "BandFromPoint" THEN FlowBlockStart
  ELSE FlowBlockEnd

\* The floats of a side the claim counts as included in the band [b0, b1]:
\* not empty, ending after b0, and starting before b1 or, when the band has
\* no height, at b0.
IncludedFloats(aSide, b0, b1) ==
  { i \in 1..Len(mFloats) :
      /\ PhysicalFloats(mFloats[i].mFrame) = aSide
      /\ ~RectEmpty(mFloats[i])
      /\ RectBEnd(mFloats[i]) > b0
      /\ \/ RectBStart(mFloats[i]) < b1
         \/ RectBStart(mFloats[i]) = b1 /\ b0 = b1 }

\* C23: a Margin query returns the edges set by exactly the included floats:
\* a float that is not empty, starts at B0 and ends after it is included in
\* a band of no height on either side; a float that starts at the end B1 of
\* a band of positive height is not included; a float that ends at B0 is
\* never included.
C23_BandEndsInclusion ==
  last.op = "GetFlowArea" /\ last.aShapeType = "Margin" =>
    /\ FlowLineLeft(last.result)
         = SetMax({ContentLineLeft}
                  \cup { RectLineRight(mFloats[i]) :
                           i \in IncludedFloats("Left", FlowBlockStart,
                                                WidthBandEnd) })
    /\ FlowLineRight(last.result)
         = SetMin({ContentLineRight}
                  \cup { RectLineLeft(mFloats[i]) :
                           i \in IncludedFloats("Right", FlowBlockStart,
                                                WidthBandEnd) })

\* A query of no height narrowed on both sides by floats that start at B0.
C23_Witness ==
  /\ last.op = "GetFlowArea"
  /\ last.aShapeType = "Margin"
  /\ last.aBandInfoType = "WidthWithinHeight"
  /\ last.aBSize = 0
  /\ \E i \in 1..Len(mFloats) :
       /\ PhysicalFloats(mFloats[i].mFrame) = "Left"
       /\ RectBStart(mFloats[i]) = FlowBlockStart
       /\ FlowLineLeft(last.result) = RectLineRight(mFloats[i])
       /\ FlowLineLeft(last.result) > ContentLineLeft
  /\ \E i \in 1..Len(mFloats) :
       /\ PhysicalFloats(mFloats[i].mFrame) = "Right"
       /\ RectBStart(mFloats[i]) = FlowBlockStart
       /\ FlowLineRight(last.result) = RectLineLeft(mFloats[i])
       /\ FlowLineRight(last.result) < ContentLineRight

(***************************************************************************)
(* The edges of a polygon within a band, against the polygon's             *)
(* intersection with the band.                                             *)
(***************************************************************************)
NextPolygon ==
  \E v \in PolygonInputs, b0 \in BandCoords, b1 \in BandCoords :
    CallPolygonEdges(v, b0, b1)

SpecPolygon == Init /\ [][NextPolygon]_vars

\* The inline coordinates of the points of the polygon's outline within the
\* closed band [b0, b1] where an extreme can lie: the vertices in the band
\* and the points of the edges at b0 and at b1.
OutlineInBand(aVertices, b0, b1) ==
  LET len == Len(aVertices)
      next(i) == aVertices[(i % len) + 1]
      lo(i) == IF aVertices[i].y > next(i).y THEN next(i) ELSE aVertices[i]
      hi(i) == IF aVertices[i].y > next(i).y THEN aVertices[i] ELSE next(i)
  IN { aVertices[i].x : i \in { j \in 1..len : /\ b0 <= aVertices[j].y
                                               /\ aVertices[j].y <= b1 } }
     \cup { PolygonXInterceptAtY(y, lo(i), hi(i)) :
              << i, y >> \in { p \in (1..len) \X {b0, b1} :
                                /\ lo(p[1]).y < hi(p[1]).y
                                /\ lo(p[1]).y <= p[2]
                                /\ p[2] <= hi(p[1]).y } }

\* The polygon turns one way at every vertex.
IsConvex(aVertices) ==
  LET len == Len(aVertices)
      at(i) == aVertices[((i - 1) % len) + 1]
      turn(i) == Determinant(PointSub(at(i + 1), at(i)),
                             PointSub(at(i + 2), at(i + 1)))
  IN \/ \A i \in 1..len : turn(i) >= 0
     \/ \A i \in 1..len : turn(i) <= 0

\* The band meets the polygon's block extent.
PolygonBandIntersects ==
  last.aBStart <= last.shape.mBEnd /\ last.aBEnd >= last.shape.mBStart

\* The band has a height and overlaps the polygon's block extent in more
\* than one level.
PolygonBandOverlaps ==
  /\ last.aBStart < last.aBEnd
  /\ last.aBStart < last.shape.mBEnd
  /\ last.aBEnd > last.shape.mBStart

\* The band has no height and lies within the polygon's block extent at a
\* level where the polygon has no vertex.
PolygonBandBetweenVertices ==
  /\ last.aBStart = last.aBEnd
  /\ last.shape.mBStart < last.aBStart
  /\ last.aBStart < last.shape.mBEnd
  /\ \A i \in 1..Len(last.shape.mVertices) :
       last.shape.mVertices[i].y # last.aBStart

\* LineLeft and LineRight are the extremes of the polygon within the band.
PolygonEdgesAreExtremes ==
  LET outline == OutlineInBand(last.shape.mVertices, last.aBStart, last.aBEnd)
  IN /\ last.lineLeft = SetMin(outline)
     /\ last.lineRight = SetMax(outline)

\* C24 as stated: for every band that intersects the polygon, LineLeft and
\* LineRight are the extremes of the polygon within the closed band.
C24_Original ==
  last.op = "PolygonEdges" /\ PolygonBandIntersects
    => PolygonEdgesAreExtremes

\* C24: LineLeft and LineRight are the extremes of the polygon within the
\* closed band when the polygon is convex and the band has a height and
\* overlaps the polygon's block extent in more than one level, and when the
\* band has no height and lies within the block extent at a level without a
\* vertex.  A band that meets the block extent only at its first or last
\* level, where a vertex or a horizontal edge lies on the band's end, gets
\* nscoord_MAX and nscoord_MIN.
C24_PolygonEdges ==
  last.op = "PolygonEdges" =>
    /\ (IsConvex(last.shape.mVertices) /\ PolygonBandOverlaps)
         => PolygonEdgesAreExtremes
    /\ PolygonBandBetweenVertices => PolygonEdgesAreExtremes
    /\ (\/ last.aBEnd <= last.shape.mBStart
        \/ last.aBStart >= last.shape.mBEnd)
         => /\ last.lineLeft = nscoord_MAX
            /\ last.lineRight = nscoord_MIN

\* A band of positive height with a vertex on its start that sets LineRight.
C24_Witness ==
  /\ last.op = "PolygonEdges"
  /\ PolygonBandOverlaps
  /\ \E i \in 1..Len(last.shape.mVertices) :
       /\ last.shape.mVertices[i].y = last.aBStart
       /\ last.shape.mVertices[i].x = last.lineRight
  /\ PolygonEdgesAreExtremes

(***************************************************************************)
(* Floats whose shape is an image: the edges of the shape and the queries  *)
(* beside it.                                                              *)
(***************************************************************************)
NextImage ==
  \/ \E f \in ImageInputs, cs \in ContainerSizes :
       AddFloat(f.frame, f.rect, f.wm, cs)
  \/ \E t \in Translations : Translate(t[1], t[2])
  \/ \E b0 \in BandCoords, b1 \in BandCoords : CallShapeEdges(b0, b1)
  \/ \E c \in BCoords, sz \in BSizes, bt \in BandInfoTypes,
        st \in ShapeTypes, ca \in ContentAreas, cs \in ContainerSizes :
       CallGetFlowArea(ca.wm, c, sz, bt, st, ca.area, cs)

SpecImage == Init /\ [][NextImage]_vars

\* The intervals are in ascending order on the block axis and no two of
\* them share a block coordinate.
IntervalsSorted(aIntervals) ==
  \A i \in 1..(Len(aIntervals) - 1) :
    YMost(aIntervals[i]) <= aIntervals[i + 1].y

\* The intervals with top <= b1 and bottom > b0.
IntervalsInBand(aIntervals, b0, b1) ==
  { i \in 1..Len(aIntervals) :
      aIntervals[i].y <= b1 /\ YMost(aIntervals[i]) > b0 }

\* Every float is an image float, and none of its intervals lies in the
\* band whose width the query reads.
NoIntervalInQueryBand ==
  \A i \in 1..Len(mFloats) :
    /\ HasShape(mFloats[i].mShapeInfo)
    /\ mFloats[i].mShapeInfo.type = "image"
    /\ IntervalsInBand(mFloats[i].mShapeInfo.mIntervals, FlowBlockStart,
                       WidthBandEnd) = {}

\* A float whose block extent under ShapeOutside meets the band asked for.
ImageFloatInBand(fi) ==
  /\ FloatBStart(fi, "ShapeOutside") <= FlowBlockStart
  /\ FloatBEnd(fi, "ShapeOutside") > FlowBlockStart

\* C25: the intervals of an image shape are sorted and disjoint on the block
\* axis; LineLeft(bs, be) is the least line-left and LineRight(bs, be) the
\* greatest line-right of the intervals with top <= be and bottom > bs, and
\* nscoord_MAX and nscoord_MIN when there is none; a ShapeOutside query
\* whose band holds no interval of any float is not narrowed and reports no
\* floats.
C25_ImageEdges ==
  /\ \A i \in 1..Len(mFloats) :
       (HasShape(mFloats[i].mShapeInfo)
          /\ mFloats[i].mShapeInfo.type = "image")
         => IntervalsSorted(mFloats[i].mShapeInfo.mIntervals)
  /\ last.op = "ShapeEdges" =>
       LET intervals == EdgeShape.mIntervals
           inBand == IntervalsInBand(intervals, last.aBStart, last.aBEnd)
       IN /\ last.lineLeft
               = IF inBand = {} THEN nscoord_MAX
                 ELSE SetMin({ intervals[i].x : i \in inBand })
          /\ last.lineRight
               = IF inBand = {} THEN nscoord_MIN
                 ELSE SetMax({ XMost(intervals[i]) : i \in inBand })
  /\ (/\ last.op = "GetFlowArea"
      /\ last.aShapeType = "ShapeOutside"
      /\ NoIntervalInQueryBand)
       => /\ FlowLineLeft(last.result) = ContentLineLeft
          /\ FlowLineRight(last.result)
               = Max(ContentLineLeft, ContentLineRight)
          /\ ~last.result.mHasFloats

\* A query into the gap between the rows of an image float whose block
\* extent holds the band.
C25_Witness ==
  /\ last.op = "GetFlowArea"
  /\ last.aShapeType = "ShapeOutside"
  /\ last.aBandInfoType = "WidthWithinHeight"
  /\ mFloats # << >>
  /\ NoIntervalInQueryBand
  /\ \E i \in 1..Len(mFloats) : ImageFloatInBand(mFloats[i])
  /\ \E i \in 1..Len(mFloats) : PhysicalFloats(mFloats[i].mFrame) = "Right"
  /\ ~last.result.mHasFloats

NextPolygonArea == \E v \in VertexLists : ConstructPolygon(v)

SpecPolygonArea == Init /\ [][NextPolygonArea]_vars

\* All the vertices lie on one line: no three of them span a triangle.
AllOnOneLine(aVertices) ==
  \A i, j, k \in 1..Len(aVertices) :
    Determinant(PointSub(aVertices[j], aVertices[i]),
                PointSub(aVertices[k], aVertices[i])) = 0

\* C27 as stated: a polygon is reported empty only when it has fewer than
\* three vertices or all its vertices lie on one line; a polygon whose
\* first two vertices coincide and whose vertices are not all on one line is
\* not reported empty.
C27_Original ==
  last.op = "PolygonShapeInfo" /\ ShapeIsEmpty(last.shape) =>
    \/ Len(last.shape.mVertices) < 3
    \/ AllOnOneLine(last.shape.mVertices)

\* A polygon reported empty whose first two vertices coincide and whose
\* vertices span a triangle.
C27_Witness ==
  /\ last.op = "PolygonShapeInfo"
  /\ ShapeIsEmpty(last.shape)
  /\ Len(last.shape.mVertices) >= 3
  /\ last.shape.mVertices[1] = last.shape.mVertices[2]
  /\ ~AllOnOneLine(last.shape.mVertices)

(***************************************************************************)
(* Queries around floats whose shape lies outside the block extent of the  *)
(* margin box.                                                             *)
(***************************************************************************)
NextOutside ==
  \/ \E f \in OutsideInputs, cs \in ContainerSizes :
       AddFloat(f.frame, f.rect, f.wm, cs)
  \/ \E c \in OutsideBCoords, sz \in OutsideBSizes, bt \in BandInfoTypes,
        ca \in ContentAreas, cs \in ContainerSizes :
       CallGetFlowArea(ca.wm, c, sz, bt, "ShapeOutside", ca.area, cs)

SpecOutside == Init /\ [][NextOutside]_vars

\* The block extent of the float's shape does not intersect that of its
\* margin rect.
ShapeOutsideRect(fi) ==
  /\ HasShape(fi.mShapeInfo)
  /\ ~ShapeIsEmpty(fi.mShapeInfo)
  /\ \/ ShapeBStart(fi.mShapeInfo) >= RectBEnd(fi)
     \/ ShapeBEnd(fi.mShapeInfo) <= RectBStart(fi)
ShapeMeetsRect(fi) == ~ShapeOutsideRect(fi)

\* The same query as if the floats whose shape lies outside the block
\* extent of the margin rect had never been added.
QueryWithoutOutsideShapes ==
  SameQueryOver(Resummed(SelectSeq(mFloats, ShapeMeetsRect)))

\* The answer's inline edges, block size and hasFloats are those of aRect.
SameBandAs(aRect) ==
  /\ last.result.IStart = aRect.IStart
  /\ last.result.ISize = aRect.ISize
  /\ last.result.BSize = aRect.BSize
  /\ last.result.mHasFloats = aRect.mHasFloats

\* The band asked for lies clear of the clipped block extent of float fi:
\* it ends at or before the extent's start, or it starts at or after the
\* extent's start (BandFromPoint) or end (WidthWithinHeight).
BandClearOf(fi) ==
  \/ FlowBlockEnd <= FloatBStart(fi, "ShapeOutside")
  \/ /\ last.aBandInfoType = "BandFromPoint"
     /\ FlowBlockStart >= FloatBStart(fi, "ShapeOutside")
  \/ /\ last.aBandInfoType = "WidthWithinHeight"
     /\ FlowBlockStart >= FloatBEnd(fi, "ShapeOutside")

NextShortcut ==
  \/ \E f \in FloatInputs, cs \in ContainerSizes :
       AddFloat(f.frame, f.rect, f.wm, cs)
  \/ \E c \in BCoords, sz \in BSizes, bt \in BandInfoTypes,
        st \in ShapeTypes, ca \in ContentAreas, cs \in ContainerSizes :
       CallGetFlowArea(ca.wm, c, sz, bt, st, ca.area, cs)

SpecShortcut == Init /\ [][NextShortcut]_vars

\* The backward walk from float i down that visits every float.
RECURSIVE WalkEveryFloat(_, _, _, _, _, _)
WalkEveryFloat(aFloats, i, band, blockStart, aBandInfoType, aShapeType) ==
  IF i = 0 THEN band
  ELSE WalkEveryFloat(aFloats, i - 1,
                      FlowAreaVisit(aFloats[i], band, blockStart,
                                    aBandInfoType, aShapeType),
                      blockStart, aBandInfoType, aShapeType)

\* The last query answered over aFloats by the reference: the quick return
\* only for a list without floats, and a walk that visits every float.
ReferenceQueryOver(aFloats) ==
  LET blockStart == FlowBlockStart
      lineLeft == ContentLineLeft
      lineRight == Max(ContentLineLeft, ContentLineRight)
      band == WalkEveryFloat(aFloats, Len(aFloats),
                             [lineLeft |-> lineLeft, lineRight |-> lineRight,
                              blockEnd |-> BandBlockEnd(blockStart,
                                                        last.aBSize),
                              haveFloats |-> FALSE],
                             blockStart, last.aBandInfoType, last.aShapeType)
      blockSize == IF band.blockEnd = nscoord_MAX THEN nscoord_MAX
                   ELSE band.blockEnd - blockStart
      inlineStart == IF IsBidiLTR(last.aWM) THEN band.lineLeft - mLineLeft
                     ELSE mLineLeft - band.lineRight + last.aContainerSize
  IN IF aFloats = << >>
     THEN nsFlowAreaRect(last.aContentArea.IStart, last.aBCoord,
                         last.aContentArea.ISize, last.aBSize, FALSE)
     ELSE nsFlowAreaRect(inlineStart, blockStart - mBlockStart,
                         band.lineRight - band.lineLeft, blockSize,
                         band.haveFloats)

\* The orders the floats of the list could have been added in.
FloatOrders ==
  LET n == Len(mFloats)
      perms == { p \in [1..n -> 1..n] : \A i, j \in 1..n : p[i] = p[j] => i = j }
  IN { Resummed([i \in 1..n |-> mFloats[p[i]]]) : p \in perms }

\* The conditions of the claim: no float of negative block size, and every
\* shape's block extent within the margin rect's.
ShortcutsApply ==
  \A i \in 1..Len(mFloats) :
    /\ mFloats[i].mRect.height >= 0
    /\ (HasShape(mFloats[i].mShapeInfo)
         /\ ~ShapeIsEmpty(mFloats[i].mShapeInfo))
        => /\ ShapeBStart(mFloats[i].mShapeInfo) >= RectBStart(mFloats[i])
           /\ ShapeBEnd(mFloats[i].mShapeInfo) <= RectBEnd(mFloats[i])

\* C29 as stated: the answer is that of the reference, whatever the order
\* the floats were added in.
C29_Original ==
  last.op = "GetFlowArea" /\ ShortcutsApply =>
    \A order \in FloatOrders : last.result = ReferenceQueryOver(order)

\* C29: the answer does not depend on the order the floats were added in;
\* its inline start, inline size, block start and hasFloats are those of
\* the reference, and so is its block size unless the band's end saturates
\* while every float ends at or before the band's start: the quick return
\* then gives the block size asked for and the reference nscoord_MAX.
C29_ShortcutsKeepAnswer ==
  last.op = "GetFlowArea" /\ ShortcutsApply =>
    /\ \A order \in FloatOrders : last.result = SameQueryOver(order)
    /\ LET reference == ReferenceQueryOver(mFloats)
       IN /\ last.result.IStart = reference.IStart
          /\ last.result.ISize = reference.ISize
          /\ last.result.BStart = reference.BStart
          /\ last.result.mHasFloats = reference.mHasFloats
          /\ last.result.BSize
               = IF /\ FlowSaturates
                    /\ BelowLastFloat(mFloats, Len(mFloats), FlowBlockStart)
                    /\ mFloats # << >>
                 THEN last.aBSize
                 ELSE reference.BSize

\* A walk ended by the break before the first float of the list, with the
\* answer of the reference.
C29_Witness ==
  /\ last.op = "GetFlowArea"
  /\ ShortcutsApply
  /\ Len(mFloats) = 2
  /\ ~BelowLastFloat(mFloats, 2, FlowBlockStart)
  /\ NoMoreFloats(mFloats[1], FlowBlockStart)
  /\ last.result.mHasFloats
  /\ last.result = ReferenceQueryOver(mFloats)

(***************************************************************************)
(* The storage cache across allocations, deallocations and Shutdown.       *)
(***************************************************************************)
\* The indices of the cache that hold a block.
CachedIndices ==
  { j \in 0..(NS_FLOAT_MANAGER_CACHE_SIZE - 1) : j < sCachedFloatManagerCount }

\* C30: sCachedFloatManagerCount stays within -1..NS_FLOAT_MANAGER_CACHE_SIZE;
\* every cached block is a block given back and neither in use nor freed,
\* and no block is cached twice; operator new returns a block that was
\* neither in use nor freed, out of the cache when it holds one; and
\* operator delete of a block when the cache is full frees the block and
\* leaves the cache as it is.
C30_CacheKeepsBlocksApart ==
  /\ [](/\ sCachedFloatManagerCount \in -1..NS_FLOAT_MANAGER_CACHE_SIZE
        /\ \A i \in CachedIndices :
             /\ sCachedFloatManagers[i] # nullptr
             /\ heap[sCachedFloatManagers[i]].state = "idle"
        /\ \A i, j \in CachedIndices :
             sCachedFloatManagers[i] = sCachedFloatManagers[j] => i = j
        /\ \A b \in Blocks : heap[b].state = "idle" => b \in CachedBlocks
        /\ \A b \in Blocks : heap[b].frees <= 1)
  /\ [][last'.op = "operator new" =>
          /\ heap[last'.result].state \in {"unused", "idle"}
          /\ heap'[last'.result].state = "inuse"
          /\ CachedBlocks # {} => last'.result \in CachedBlocks
          /\ last'.result \notin CachedBlocks']_vars
  /\ [][(/\ last'.op = "operator delete"
         /\ last'.aPtr # nullptr
         /\ sCachedFloatManagerCount = NS_FLOAT_MANAGER_CACHE_SIZE) =>
          /\ heap'[last'.aPtr].state = "freed"
          /\ heap'[last'.aPtr].frees = 1
          /\ sCachedFloatManagerCount' = sCachedFloatManagerCount
          /\ sCachedFloatManagers' = sCachedFloatManagers]_vars

\* A block freed by operator delete while the cache was full, before any
\* Shutdown.
C30_Witness ==
  /\ ~isShutDown
  /\ last.op = "operator delete"
  /\ last.aPtr # nullptr
  /\ heap[last.aPtr].state = "freed"
  /\ sCachedFloatManagerCount = NS_FLOAT_MANAGER_CACHE_SIZE
====
